---- MODULE Spec2Model ----
(***************************************************************************)
(* Verification model of the trailers scraper (src/scraper.py,             *)
(* src/downloader.py, src/app.py).                                         *)
(*                                                                         *)
(* The program is sequential, so each component is modelled by its own     *)
(* specification over its own variables; the variables of the other        *)
(* components stay at their idle values:                                   *)
(*   SpecRetry   - retry_with_backoff and the external tool calls          *)
(*   SpecCode    - extract_video_code                                      *)
(*   SpecName    - the filename decision of main                           *)
(*   SpecParse   - the title/thumbnail resolution of parse_trailer         *)
(*   SpecAssets  - get_video_details -> download_assets                    *)
(*   SpecCleanup - cleanup_incomplete_downloads                            *)
(*   SpecMain    - the crawl loop of main and the browser session          *)
(*   SpecTitle   - the title/description reconciliation of main            *)
(*   SpecDownload - the retrieval layers of download_video                 *)
(*   SpecValid   - is_valid_video_url                                      *)
(*   SpecBrowser - extract_video_from_browser                              *)
(*   SpecFetch   - download_thumbnail and download_file                    *)
(*   SpecProbe   - the candidate loop of download_javtrailers_direct       *)
(*   SpecSource  - extract_video_source                                    *)
(* Strings are sequences of one-character strings.                         *)
(***************************************************************************)
EXTENDS Integers, Sequences, FiniteSets, TLC

VARIABLES
  rFunc,      \* retry: which function is being called
  rPc,        \* retry: position of the caller/wrapper
  rAttempt,   \* retry: loop variable 'attempt' of wrapper
  rDelay,     \* retry: local 'delay' of wrapper
  rCalls,     \* retry: outcomes of the calls of the function body, in order
  rRuns,      \* retry: number of runs of the external tool
  rSleeps,    \* retry: arguments of the time.sleep calls, in order
  rFile,      \* retry: state of the output path of the tool
  rTool,      \* retry: what the last run of the external tool did
  rResult,    \* retry: what the caller of the function observes
  cInput,     \* extract_video_code: the argument title_or_url
  cNow,       \* extract_video_code: int(time.time()) at the call
  cPc,        \* extract_video_code: "ready" before the call, "done" after
  cResult,    \* extract_video_code: the returned string
  nCode,      \* main: video_code of the current loop iteration
  nTitle,     \* main: original_title of the current loop iteration
  nPrefix,    \* main: local 'prefix' (function scope, survives iterations)
  nNumber,    \* main: local 'number' (function scope, survives iterations)
  nPc,        \* main: "start", "formatted", or "raised" (NameError)
  nFilename,  \* main: formatted_filename
  pPage,      \* parse_trailer: what the loaded page contains
  pPc,        \* parse_trailer: "ready" before the call, "done" after
  pMeta,      \* parse_trailer: the metadata dictionary
  pDomCalls,  \* parse_trailer: element lookups in the rendered page
  aRaw,       \* app: screenshot URLs found on the video page
  aDetails,   \* app: video_details returned by get_video_details
  aPc,        \* download_assets: "request", "shots", "summary", "done"
  aResults,   \* download_assets: the results dictionary
  aAttempts,  \* download_assets: download_file calls for screenshots so far
  fTree0,     \* cleanup: the downloads tree before the call
  fTree,      \* cleanup: the downloads tree
  fPrev,      \* cleanup: the downloads tree before the latest call
  fPc,        \* cleanup: "ready", "done" after one call, "again" after two
  fCounts,    \* cleanup: the returned (deleted_count, kept_count)
  mPc,        \* main: position in main
  mSession,   \* main: the browser session: "none", "open", "closed"
  mDriver,    \* main: local driver: "None" or "set"
  mQuits,     \* main: number of driver.quit() calls
  mLateOps,   \* main: browser operations issued on a closed session
  mLinks,     \* main: len(trailer_links)
  mI,         \* main: loop variable i
  mTried,     \* main: the links whose iteration started
  mFailed,    \* main: the links with a failed step
  mJson,      \* main: metadata files written, per link
  mThumb,     \* main: local thumbnail_downloaded
  mVideo,     \* main: local video_downloaded
  mStop,      \* main: local stop_after_success: "unset", "True", "False"
  mBoth,      \* main: the videos for which video and thumbnail were retrieved
  mInterrupted, \* main: a KeyboardInterrupt was raised while processing a video
  mAfter,     \* main: steps of video processing run after that interrupt
  mEnd,       \* main: how the try block of main was left
  tIn,        \* main: title, original_title, description returned by parse_trailer
  tMeta,      \* main: the same fields of the metadata record
  tReplaced,  \* main: the description replaced the title
  tOriginal,  \* main: local original_title
  tPc,        \* main: "parsed" before line 1856, "reconciled" after 1882
  dUrl,       \* download_video: the page URL
  dPc,        \* download_video: position
  dCands,     \* download_video: candidate URLs of the current layer not yet tried
  dEntered,   \* download_video: the layers entered, in order
  dCalls,     \* download_video: invocations of a layer so far
  dLate,      \* download_video: invocations after a layer succeeded
  dSuccess,   \* download_video: the layer that succeeded, or "none"
  dResult,    \* download_video: "True", "False", "raised" or "none"
  dFile,      \* download_video: state of the requested output path
  vUrl,       \* is_valid_video_url: the argument url
  vProbe,     \* is_valid_video_url: what requests.head does for this URL
  vProbed,    \* is_valid_video_url: the probe was issued
  vResult,    \* is_valid_video_url: the returned value
  vPc,        \* is_valid_video_url: "ready" before the call, "done" after
  bCode,      \* extract_video_from_browser: extract_video_code(url)
  bNav,       \* extract_video_from_browser: whether loading the page raises
  bScan,      \* extract_video_from_browser: what the script scan returns
  bUrls,      \* extract_video_from_browser: local video_urls
  bClickRan,  \* extract_video_from_browser: the play controls were clicked
  bResult,    \* extract_video_from_browser: the returned list
  bPc,        \* extract_video_from_browser: position
  gFunc,      \* plain-asset fetch: the function called
  gUrl,       \* plain-asset fetch: the URL fetched
  gFile,      \* plain-asset fetch: the file at the target path
  gType,      \* plain-asset fetch: Content-Type of the response
  gLink,      \* download_file: the HTML answer holds a media link
  gWrote,     \* plain-asset fetch: a payload was written
  gResult,    \* plain-asset fetch: what the call returned
  gPc,        \* plain-asset fetch: position
  gFile0,     \* plain-asset fetch: the file at the target path before the call
  gRequests,  \* download_file: requests sent
  gDepth,     \* download_file: nested calls made
  qCode,      \* candidate loop: the cleaned video code
  qUrls,      \* candidate loop: len(all_urls)
  qI,         \* candidate loop: index of the current candidate
  qPrev,      \* candidate loop: the step before the last
  qLast,      \* candidate loop: the last step
  qResult,    \* candidate loop: the value returned
  qPc,        \* candidate loop: position
  xCode,      \* extract_video_source: local video_code
  xUrl,       \* extract_video_source: local video_url
  xTried,     \* extract_video_source: the methods attempted, in order
  xResult,    \* extract_video_source: the value returned or the exception
  xContext,   \* extract_video_source: the document the browser is switched to
  xVisits,    \* extract_video_source: what happened at each iframe
  xPc         \* extract_video_source: position

retryVars == <<rFunc, rPc, rAttempt, rDelay, rCalls, rRuns, rSleeps, rFile, rTool, rResult>>

codeVars == <<cInput, cNow, cPc, cResult>>

nameVars == <<nCode, nTitle, nPrefix, nNumber, nPc, nFilename>>

parseVars == <<pPage, pPc, pMeta, pDomCalls>>

assetVars == <<aRaw, aDetails, aPc, aResults, aAttempts>>

fsVars == <<fTree0, fTree, fPrev, fPc, fCounts>>

mainVars == <<mPc, mSession, mDriver, mQuits, mLateOps, mLinks, mI, mTried, mFailed, mJson, mThumb, mVideo, mStop, mBoth, mInterrupted, mAfter, mEnd>>

titleVars == <<tIn, tMeta, tReplaced, tOriginal, tPc>>

dlVars == <<dUrl, dPc, dCands, dEntered, dCalls, dLate, dSuccess, dResult, dFile>>

validVars == <<vUrl, vProbe, vProbed, vResult, vPc>>

browserVars == <<bCode, bNav, bScan, bUrls, bClickRan, bResult, bPc>>

fetchVars == <<gFunc, gUrl, gFile, gType, gLink, gWrote, gResult, gPc, gFile0, gRequests, gDepth>>

probeVars == <<qCode, qUrls, qI, qPrev, qLast, qResult, qPc>>

sourceVars == <<xCode, xUrl, xTried, xResult, xContext, xVisits, xPc>>

\* The variables each component leaves alone
retryOthers == <<codeVars, nameVars, parseVars, assetVars, fsVars, mainVars, titleVars, dlVars, validVars, browserVars, fetchVars, probeVars, sourceVars>>

codeOthers == <<retryVars, nameVars, parseVars, assetVars, fsVars, mainVars, titleVars, dlVars, validVars, browserVars, fetchVars, probeVars, sourceVars>>

nameOthers == <<retryVars, codeVars, parseVars, assetVars, fsVars, mainVars, titleVars, dlVars, validVars, browserVars, fetchVars, probeVars, sourceVars>>

parseOthers == <<retryVars, codeVars, nameVars, assetVars, fsVars, mainVars, titleVars, dlVars, validVars, browserVars, fetchVars, probeVars, sourceVars>>

assetOthers == <<retryVars, codeVars, nameVars, parseVars, fsVars, mainVars, titleVars, dlVars, validVars, browserVars, fetchVars, probeVars, sourceVars>>

fsOthers == <<retryVars, codeVars, nameVars, parseVars, assetVars, mainVars, titleVars, dlVars, validVars, browserVars, fetchVars, probeVars, sourceVars>>

mainOthers == <<retryVars, codeVars, nameVars, parseVars, assetVars, fsVars, titleVars, dlVars, validVars, browserVars, fetchVars, probeVars, sourceVars>>

titleOthers == <<retryVars, codeVars, nameVars, parseVars, assetVars, fsVars, mainVars, dlVars, validVars, browserVars, fetchVars, probeVars, sourceVars>>

dlOthers == <<retryVars, codeVars, nameVars, parseVars, assetVars, fsVars, mainVars, titleVars, validVars, browserVars, fetchVars, probeVars, sourceVars>>

validOthers == <<retryVars, codeVars, nameVars, parseVars, assetVars, fsVars, mainVars, titleVars, dlVars, browserVars, fetchVars, probeVars, sourceVars>>

browserOthers == <<retryVars, codeVars, nameVars, parseVars, assetVars, fsVars, mainVars, titleVars, dlVars, validVars, fetchVars, probeVars, sourceVars>>

fetchOthers == <<retryVars, codeVars, nameVars, parseVars, assetVars, fsVars, mainVars, titleVars, dlVars, validVars, browserVars, probeVars, sourceVars>>

probeOthers == <<retryVars, codeVars, nameVars, parseVars, assetVars, fsVars, mainVars, titleVars, dlVars, validVars, browserVars, fetchVars, sourceVars>>

sourceOthers == <<retryVars, codeVars, nameVars, parseVars, assetVars, fsVars, mainVars, titleVars, dlVars, validVars, browserVars, fetchVars, probeVars>>

----------------------------------------------------------------------------
(* Generic helpers                                                         *)

Min(a, b) == IF a < b THEN a ELSE b

Range(s) == {s[i] : i \in 1..Len(s)}

\* All sequences over S of length 0..n
RECURSIVE SeqsUpTo(_, _)
SeqsUpTo(S, n) ==
  IF n = 0 THEN {<<>>}
  ELSE LET shorter == SeqsUpTo(S, n - 1)
       IN  shorter \cup {Append(s, x) : s \in {t \in shorter : Len(t) = n - 1}, x \in S}

----------------------------------------------------------------------------
(* retry_with_backoff, download_video_ffmpeg, download_with_ytdlp          *)

MAX_RETRIES == 5

RETRY_BACKOFF_FACTOR == 2

\* What one call of a function body can do: return a value, raise an
\* Exception (the class the wrapper catches), or raise a BaseException that
\* is not an Exception (KeyboardInterrupt), which no 'except Exception' sees.
\* Two return values and two exception objects tell the calls apart.
Returns == {[kind |-> "return", val |-> v] : v \in {"v1", "v2"}}

Exceptions == {[kind |-> "raise", val |-> v] : v \in {"e1", "e2"}}

Interrupt == [kind |-> "interrupt", val |-> "KeyboardInterrupt"]

BodyOutcomes == Returns \cup Exceptions \cup {Interrupt}

ReturnOf(v) == [kind |-> "return", val |-> v]

NoResult == [kind |-> "none", val |-> "none"]

\* What one run of an external tool does to the output path: write a
\* non-empty file, write an empty file, exit without touching the path,
\* fail to start (the call raises OSError), or be interrupted.
ToolOutcomes == {"data", "empty", "nothing", "oserror", "interrupt"}

FileStates == {"absent", "empty", "data"}

RetryFuncs == {"generic", "download_video_ffmpeg", "download_with_ytdlp"}

\* @retry_with_backoff sits on download_video_ffmpeg (and on the generic
\* function), not on download_with_ytdlp
IsWrapped(f) == f \in {"generic", "download_video_ffmpeg"}

RetryInit ==
  /\ rFunc \in RetryFuncs
  /\ rPc = "call"
  /\ rAttempt = 1
  /\ rDelay = 1
  /\ rCalls = <<>>
  /\ rRuns = 0
  /\ rSleeps = <<>>
  /\ rFile \in (IF rFunc = "generic" THEN {"absent"} ELSE FileStates)
  /\ rTool = "none"
  /\ rResult = NoResult

RetryIdle ==
  /\ rFunc = "none"
  /\ rPc = "idle"
  /\ rAttempt = 0
  /\ rDelay = 0
  /\ rCalls = <<>>
  /\ rRuns = 0
  /\ rSleeps = <<>>
  /\ rFile = "absent"
  /\ rTool = "none"
  /\ rResult = NoResult

\* The body of wrapper's loop for one call outcome o of func:
\* 'return func()' ends the wrapper; an Exception on the last attempt is
\* re-raised, on an earlier attempt the wrapper goes to sleep; anything
\* that is not an Exception leaves the wrapper at once.
WrapperLastAttempt_OffByOne(attempt) == attempt = MAX_RETRIES - 1

WrapperLastAttempt(attempt) == attempt = MAX_RETRIES

WrapperStep(o) ==
  /\ rCalls' = Append(rCalls, o)
  /\ IF o.kind = "raise" /\ ~WrapperLastAttempt(rAttempt)
       THEN /\ rPc' = "sleep"
            /\ rResult' = rResult
       ELSE /\ rPc' = "done"
            /\ rResult' = o
  /\ UNCHANGED <<rFunc, rAttempt, rDelay, rSleeps>>

\* An unwrapped function: the caller sees the outcome of the single call
DirectStep(o) ==
  /\ rCalls' = Append(rCalls, o)
  /\ rPc' = "done"
  /\ rResult' = o
  /\ UNCHANGED <<rFunc, rAttempt, rDelay, rSleeps>>

\* time.sleep(delay); delay *= RETRY_BACKOFF_FACTOR; next attempt
NextDelay_Linear(d) == d + RETRY_BACKOFF_FACTOR

NextDelay(d) == d * RETRY_BACKOFF_FACTOR

RetrySleep ==
  /\ rPc = "sleep"
  /\ rSleeps' = Append(rSleeps, rDelay)
  /\ rDelay' = NextDelay(rDelay)
  /\ rAttempt' = rAttempt + 1
  /\ rPc' = "call"
  /\ UNCHANGED <<rFunc, rCalls, rRuns, rFile, rTool, rResult>>
  /\ UNCHANGED retryOthers

\* A call of an arbitrary wrapped function
CallGeneric ==
  /\ rPc = "call"
  /\ rFunc = "generic"
  /\ \E o \in BodyOutcomes : WrapperStep(o)
  /\ UNCHANGED <<rRuns, rFile, rTool>>
  /\ UNCHANGED retryOthers

\* The output path after one run of a tool
FileAfterRun(f, t) == IF t \in {"data", "empty"} THEN t ELSE f

\* Body of download_video_ffmpeg for output path state f and tool outcome
\* t: the whole body is inside try/except Exception. True is returned when
\* a non-empty file is at the output path after the run; otherwise the
\* body raises, its own handler removes the file and returns False.
FfmpegOutcome(f, t) ==
  IF t = "interrupt" THEN Interrupt
  ELSE IF t # "oserror" /\ FileAfterRun(f, t) = "data" THEN ReturnOf("True")
  ELSE ReturnOf("False")

FfmpegFile(f, t) ==
  IF t = "interrupt" THEN FileAfterRun(f, t)
  ELSE IF t # "oserror" /\ FileAfterRun(f, t) = "data" THEN "data"
  ELSE "absent"

CallFfmpeg ==
  /\ rPc = "call"
  /\ rFunc = "download_video_ffmpeg"
  /\ \E t \in ToolOutcomes :
       /\ rRuns' = rRuns + 1
       /\ rTool' = t
       /\ rFile' = FfmpegFile(rFile, t)
       /\ WrapperStep(FfmpegOutcome(rFile, t))
  /\ UNCHANGED retryOthers

\* Body of download_with_ytdlp (not decorated): try/except Exception
\* returning False, True only for a non-empty file at the output path; the
\* file is left as the tool left it.
YtdlpOutcome_ExistsOnly(f, t) ==
  IF t = "interrupt" THEN Interrupt
  ELSE IF t # "oserror" /\ FileAfterRun(f, t) # "absent" THEN ReturnOf("True")
  ELSE ReturnOf("False")

YtdlpOutcome(f, t) ==
  IF t = "interrupt" THEN Interrupt
  ELSE IF t # "oserror" /\ FileAfterRun(f, t) = "data" THEN ReturnOf("True")
  ELSE ReturnOf("False")

CallYtdlp ==
  /\ rPc = "call"
  /\ rFunc = "download_with_ytdlp"
  /\ \E t \in ToolOutcomes :
       /\ rRuns' = rRuns + 1
       /\ rTool' = t
       /\ rFile' = FileAfterRun(rFile, t)
       /\ DirectStep(YtdlpOutcome(rFile, t))
  /\ UNCHANGED retryOthers

RetryNext == CallGeneric \/ CallFfmpeg \/ CallYtdlp \/ RetrySleep

----------------------------------------------------------------------------
(* Claims about the retry policy                                           *)

AllRaise(calls) == \A i \in 1..Len(calls) : calls[i].kind = "raise"

\* C1: a wrapped function that raises (an Exception) on every call is called
\* exactly MAX_RETRIES times and the caller gets the exception of the last
\* call; if a call returns, it is the last call, at most the MAX_RETRIES-th,
\* and the caller gets its return value.
C1_RetryCallCountAndResult ==
  (rPc = "done" /\ IsWrapped(rFunc)) =>
    LET n == Len(rCalls) IN
    /\ n \in 1..MAX_RETRIES
    /\ AllRaise(rCalls) => (n = MAX_RETRIES /\ rResult = rCalls[n])
    /\ \A k \in 1..n : rCalls[k].kind = "return" => (n = k /\ rResult = rCalls[k])

\* C1 witness: five failed calls, the last exception differing from the first
C1_Witness ==
  /\ rPc = "done"
  /\ rFunc = "generic"
  /\ Len(rCalls) = MAX_RETRIES
  /\ AllRaise(rCalls)
  /\ rCalls[1] # rCalls[MAX_RETRIES]
  /\ rResult = rCalls[MAX_RETRIES]

\* C2: the waits between attempts are 1, 2, 4, 8 in this order, one wait
\* after each failed attempt that is followed by another attempt, and no
\* wait after the last failed attempt or after a successful attempt.
C2_BackoffDelays ==
  IsWrapped(rFunc) =>
    /\ Len(rSleeps) <= 4
    /\ rSleeps = SubSeq(<<1, 2, 4, 8>>, 1, Len(rSleeps))
    /\ rPc \in {"sleep", "done"} => Len(rSleeps) = Len(rCalls) - 1
    /\ rPc = "call" => Len(rSleeps) = Len(rCalls)

\* C2 witness: all four waits happened and the wrapper has finished
C2_Witness ==
  /\ rPc = "done"
  /\ rFunc = "generic"
  /\ rSleeps = <<1, 2, 4, 8>>
  /\ Len(rCalls) = MAX_RETRIES

\* C3: when a run of the stream-copy tool (download_video_ffmpeg) or of the
\* media downloader (download_with_ytdlp) fails, the run is repeated and
\* failure is reported to the caller only after MAX_RETRIES runs.
C3_ToolFailureReportedAfterRetries ==
  (/\ rPc = "done"
   /\ rFunc \in {"download_video_ffmpeg", "download_with_ytdlp"}
   /\ rResult = ReturnOf("False")) => rRuns = MAX_RETRIES

----------------------------------------------------------------------------
(* Strings                                                                 *)

LowerChars == <<"a","b","c","d","e","f","g","h","i","j","k","l","m",
                "n","o","p","q","r","s","t","u","v","w","x","y","z">>

UpperChars == <<"A","B","C","D","E","F","G","H","I","J","K","L","M",
                "N","O","P","Q","R","S","T","U","V","W","X","Y","Z">>

DigitChars == <<"0","1","2","3","4","5","6","7","8","9">>

Letters == Range(LowerChars) \cup Range(UpperChars)

Digits == Range(DigitChars)

IsAlnum(c) == c \in Letters \cup Digits

\* str.upper() on one character and on a string
UpperMap == [c \in Range(LowerChars) |->
               UpperChars[CHOOSE i \in 1..Len(LowerChars) : LowerChars[i] = c]]

UpperChar(c) == IF c \in DOMAIN UpperMap THEN UpperMap[c] ELSE c

StrUpper(s) == [i \in 1..Len(s) |-> UpperChar(s[i])]

\* s.startswith(p)
StartsWith(s, p) == Len(p) <= Len(s) /\ SubSeq(s, 1, Len(p)) = p

\* Number of consecutive characters of S in s from position i on
RECURSIVE RunLen(_, _, _)
RunLen(s, i, S) ==
  IF i > Len(s) \/ i < 1 THEN 0
  ELSE IF s[i] \notin S THEN 0
  ELSE 1 + RunLen(s, i + 1, S)

\* str.zfill(w) of a digit string
RECURSIVE ZFill(_, _)
ZFill(s, w) == IF Len(s) >= w THEN s ELSE ZFill(<<"0">> \o s, w)

\* str(n) of a natural number
RECURSIVE IntToStr(_)
IntToStr(n) ==
  IF n < 10 THEN <<DigitChars[n + 1]>>
  ELSE Append(IntToStr(n \div 10), DigitChars[(n % 10) + 1])

\* s.split(c)
RECURSIVE Split(_, _)
Split(s, c) ==
  LET hits == {i \in 1..Len(s) : s[i] = c} IN
  IF hits = {} THEN <<s>>
  ELSE LET i == CHOOSE j \in hits : \A k \in hits : j <= k
       IN  <<SubSeq(s, 1, i - 1)>> \o Split(SubSeq(s, i + 1, Len(s)), c)

\* The outcome of the call of download_video_ffmpeg that just ended
LastCall == rCalls[Len(rCalls)]

\* C28: download_video_ffmpeg returns True exactly when the tool run of this
\* invocation left a non-empty file at the output path; in every other case
\* (tool error, tool missing, empty output) it returns False, does not
\* raise, and no file remains at the output path.
C28_FfmpegTrueIffToolWroteFile ==
  (rFunc = "download_video_ffmpeg" /\ rPc = "done" /\ rTool # "interrupt") =>
    /\ LastCall = ReturnOf("True") <=> rTool = "data"
    /\ LastCall # ReturnOf("True") => (LastCall = ReturnOf("False") /\ rFile = "absent")

\* When the tool run wrote the output path or could not be started, the
\* result follows the file the tool wrote
FfmpegResultWhenToolWrites ==
  (rFunc = "download_video_ffmpeg" /\ rPc = "done" /\ rTool \in {"data", "empty", "oserror"}) =>
    /\ LastCall = ReturnOf("True") <=> rTool = "data"
    /\ LastCall # ReturnOf("True") => (LastCall = ReturnOf("False") /\ rFile = "absent")

----------------------------------------------------------------------------
(* extract_video_code                                                      *)

\* Longest input of extract_video_code in the model
MaxLen == 5

CodeAlphabet == {"a", "B", "0", "7", "-", " ", "/"}

\* Values of int(time.time())
Times == {5, 17}

NoMatch == [found |-> FALSE, groups |-> <<>>]

\* Where the (\d{3,5}) group starts when the letters end before position j;
\* sep is the optional separator of the pattern ("" for none); 0 = no match
NumStart(s, j, sep) ==
  IF sep # "" /\ j <= Len(s) /\ s[j] = sep /\ RunLen(s, j + 1, Digits) >= 3
    THEN j + 1
  ELSE IF RunLen(s, j, Digits) >= 3 THEN j
  ELSE 0

\* The pattern ([A-Z]{2,5})SEP?(\d{3,5}) with re.IGNORECASE tried at
\* position i: greedy letters, optional separator, greedy digits
MatchAt(s, i, sep) ==
  LET ns == {n \in 2..5 : n <= RunLen(s, i, Letters) /\ NumStart(s, i + n, sep) # 0} IN
  IF ns = {} THEN NoMatch
  ELSE LET n == CHOOSE x \in ns : \A y \in ns : y <= x
           d == NumStart(s, i + n, sep)
           m == Min(5, RunLen(s, d, Digits))
       IN  [found |-> TRUE, groups |-> <<SubSeq(s, i, i + n - 1), SubSeq(s, d, d + m - 1)>>]

\* re.search: the match at the leftmost position that has one
Search(s, sep) ==
  LET starts == {i \in 1..Len(s) : MatchAt(s, i, sep).found} IN
  IF starts = {} THEN NoMatch
  ELSE MatchAt(s, CHOOSE i \in starts : \A j \in starts : i <= j, sep)

\* The separators of the three patterns, in list order
patterns == <<"-", "", " ">>

\* f"{prefix.upper()}-{number.zfill(3)}"
FormatCode(groups) == StrUpper(groups[1]) \o <<"-">> \o ZFill(groups[2], 3)

\* title_or_url.split('/')[-1]
LastSegment_First(s) == Split(s, "/")[1]

LastSegment(s) == Split(s, "/")[Len(Split(s, "/"))]

\* re.sub(r'[^a-zA-Z0-9]', '', filename)
CleanName(s) == SelectSeq(s, IsAlnum)

UnknownCode(now) == <<"U","N","K","N","O","W","N","-">> \o IntToStr(now)

extract_video_code(s, now) ==
  LET hits == {p \in 1..Len(patterns) : Search(s, patterns[p]).found} IN
  IF hits # {}
    THEN FormatCode(Search(s, patterns[CHOOSE p \in hits : \A q \in hits : p <= q]).groups)
  ELSE IF "/" \in Range(s) /\ CleanName(LastSegment(s)) # <<>>
    THEN CleanName(LastSegment(s))
  ELSE UnknownCode(now)

CodeInit ==
  /\ cInput \in SeqsUpTo(CodeAlphabet, MaxLen)
  /\ cNow = 0
  /\ cPc = "ready"
  /\ cResult = <<>>

CodeIdle ==
  /\ cInput = <<>>
  /\ cNow = 0
  /\ cPc = "idle"
  /\ cResult = <<>>

ExtractVideoCode ==
  /\ cPc = "ready"
  /\ \E now \in Times :
       /\ cNow' = now
       /\ cResult' = extract_video_code(cInput, now)
  /\ cPc' = "done"
  /\ UNCHANGED cInput
  /\ UNCHANGED codeOthers

CodeNext == ExtractVideoCode

----------------------------------------------------------------------------
(* Claims about extract_video_code                                         *)

\* The input is a code of the shape LETTERS-DIGITS, LETTERSDIGITS or
\* LETTERS DIGITS: 2 to 5 letters, an optional '-' or ' ', one or more digits
ShapeLetters(s) == RunLen(s, 1, Letters)

ShapeNumStart(s) ==
  LET j == ShapeLetters(s) + 1 IN
  IF j <= Len(s) /\ s[j] \in {"-", " "} THEN j + 1 ELSE j

IsCodeShape(s) ==
  /\ ShapeLetters(s) \in 2..5
  /\ ShapeNumStart(s) <= Len(s)
  /\ \A i \in ShapeNumStart(s)..Len(s) : s[i] \in Digits

ShapeExpected(s) ==
  StrUpper(SubSeq(s, 1, ShapeLetters(s))) \o <<"-">>
    \o ZFill(SubSeq(s, ShapeNumStart(s), Len(s)), 3)

\* C4: for an input that is a code of the shape LETTERS-DIGITS,
\* LETTERSDIGITS or LETTERS DIGITS (2..5 letters, one or more digits) the
\* result is the upper-cased prefix, '-', and the number zero-padded to at
\* least 3 digits.
C4_CodeShapeNormalized ==
  (cPc = "done" /\ IsCodeShape(cInput)) => cResult = ShapeExpected(cInput)

\* Some pattern of the list matches somewhere in s: 2 letters followed by
\* three digits, with at most one '-' or ' ' in between
HasCodePattern(s) ==
  \E i \in 1..Len(s) :
    /\ i + 1 <= Len(s) /\ s[i] \in Letters /\ s[i + 1] \in Letters
    /\ \/ (i + 4 <= Len(s) /\ \A k \in 2..4 : s[i + k] \in Digits)
       \/ (/\ i + 5 <= Len(s) /\ s[i + 2] \in {"-", " "}
           /\ \A k \in 3..5 : s[i + k] \in Digits)

\* The part of s after its last '/', without the non-alphanumeric characters
TailAfterSlash(s) ==
  LET k == CHOOSE i \in 1..Len(s) : s[i] = "/" /\ \A j \in (i + 1)..Len(s) : s[j] # "/"
  IN  SubSeq(s, k + 1, Len(s))

AlnumOnly(s) == SelectSeq(s, LAMBDA c : c \in Letters \cup Digits)

\* C5: when no code pattern matches, the result is the last '/'-separated
\* segment without its non-alphanumeric characters if the input contains
\* '/' and that is non-empty, and 'UNKNOWN-<timestamp>' otherwise; the
\* result is never the empty string.
C5_FallbackResult ==
  cPc = "done" =>
    /\ cResult # <<>>
    /\ ~HasCodePattern(cInput) =>
         cResult = IF "/" \in Range(cInput) /\ AlnumOnly(TailAfterSlash(cInput)) # <<>>
                     THEN AlnumOnly(TailAfterSlash(cInput))
                     ELSE <<"U","N","K","N","O","W","N","-">> \o IntToStr(cNow)

\* C5 witness: no pattern, several '/', and the last segment loses a
\* character in cleaning
C5_Witness ==
  /\ cPc = "done"
  /\ ~HasCodePattern(cInput)
  /\ Len(Split(cInput, "/")) >= 3
  /\ cResult # <<>>
  /\ cResult = AlnumOnly(TailAfterSlash(cInput))
  /\ Len(cResult) < Len(TailAfterSlash(cInput))

----------------------------------------------------------------------------
(* The filename decision of main (duplicate-code check)                    *)

\* Longest digit string in an original_title of the model
MaxTitleDigits == 3

\* Longest digit string of the URL segments the video codes come from
MaxCodeDigits == 3

\* Titles: up to two letters, an optional '-', a digit string, and a rest
TitleRests == {<<>>, <<" ">>, <<"a">>, <<" ", "a">>}

Titles ==
  {l \o h \o d \o r : l \in SeqsUpTo({"a"}, 2), h \in {<<>>, <<"-">>},
                      d \in SeqsUpTo({"0", "7"}, MaxTitleDigits), r \in TitleRests}

\* video_code is always a result of extract_video_code (parse_trailer line
\* 576/579, main line 1847): here of a URL ending in letters and digits,
\* in a letter, or in '/'
CodeInputs ==
  {<<"/">> \o l \o d : l \in {<<"a", "a">>}, d \in SeqsUpTo({"0", "7"}, MaxCodeDigits)}
      \cup {<<"/">>, <<"/", "b">>}

VideoCodes == {extract_video_code(u, now) : u \in CodeInputs, now \in Times}

Whitespace == {" "}

\* Value of a local variable that was never assigned
Unbound == <<"<unbound>">>

\* str.strip()
RECURSIVE LStrip(_, _)
LStrip(s, S) == IF s # <<>> /\ Head(s) \in S THEN LStrip(Tail(s), S) ELSE s

RECURSIVE RStrip(_, _)
RStrip(s, S) ==
  IF s # <<>> /\ s[Len(s)] \in S THEN RStrip(SubSeq(s, 1, Len(s) - 1), S) ELSE s

Strip(s) == LStrip(RStrip(s, Whitespace), Whitespace)

\* video_code.split('.')[0].strip().upper()
NormalizedCode(code) == StrUpper(Strip(Split(code, ".")[1]))

\* re.match(r'([A-Z]+)[-\s]*(\d+)', normalized_code)
CodeParts(norm) ==
  LET n == RunLen(norm, 1, Range(UpperChars))
      k == RunLen(norm, n + 1, {"-"} \cup Whitespace)
      m == RunLen(norm, n + k + 1, Digits)
  IN  IF n >= 1 /\ m >= 1
        THEN [found |-> TRUE,
              groups |-> <<SubSeq(norm, 1, n), SubSeq(norm, n + k + 1, n + k + m)>>]
        ELSE NoMatch

\* prefix-number with the leading zeros of the number removed
CanonicalCode(norm) ==
  IF CodeParts(norm).found
    THEN CodeParts(norm).groups[1] \o <<"-">> \o LStrip(CodeParts(norm).groups[2], {"0"})
    ELSE norm

\* The locals prefix and number after lines 1910-1916
PrefixAfter(norm, old) == IF CodeParts(norm).found THEN CodeParts(norm).groups[1] ELSE old

NumberAfter(norm, old) ==
  IF CodeParts(norm).found THEN LStrip(CodeParts(norm).groups[2], {"0"}) ELSE old

\* re.search(f'^{prefix}-?0*{number}\\s', t) (hyphen = TRUE) and
\* re.search(f'^{prefix}0*{number}\\s', t) (hyphen = FALSE)
PaddedCodeAtStart(t, prefix, number, hyphen) ==
  /\ StartsWith(t, prefix)
  /\ LET j  == Len(prefix) + 1
         j2 == IF hyphen /\ j <= Len(t) /\ t[j] = "-" THEN j + 1 ELSE j
     IN  \E z \in 0..RunLen(t, j2, {"0"}) :
           /\ StartsWith(SubSeq(t, j2 + z, Len(t)), number)
           /\ j2 + z + Len(number) <= Len(t)
           /\ t[j2 + z + Len(number)] \in Whitespace

\* The first branch of the if/elif chain (line 1927)
StartsWithCode(t, norm) == StartsWith(t, norm) \/ StartsWith(t, CanonicalCode(norm))

\* The elif branches read prefix and number: NameError when code_parts never
\* matched in this call of main
RaisesNameError(code, title, prefix) ==
  /\ ~StartsWithCode(StrUpper(title), NormalizedCode(code))
  /\ PrefixAfter(NormalizedCode(code), prefix) = Unbound

title_has_code(code, title, prefix, number) ==
  LET norm == NormalizedCode(code)
      t    == StrUpper(title)
  IN  \/ StartsWithCode(t, norm)
      \/ PaddedCodeAtStart(t, PrefixAfter(norm, prefix), NumberAfter(norm, number), TRUE)
      \/ PaddedCodeAtStart(t, PrefixAfter(norm, prefix), NumberAfter(norm, number), FALSE)

formatted_filename(code, title, prefix, number) ==
  IF title_has_code(code, title, prefix, number) THEN title ELSE code \o <<" ">> \o title

NameInit ==
  /\ nCode = <<>>
  /\ nTitle = <<>>
  /\ nPrefix = Unbound
  /\ nNumber = Unbound
  /\ nPc = "start"
  /\ nFilename = <<>>

NameIdle ==
  /\ nCode = <<>>
  /\ nTitle = <<>>
  /\ nPrefix = Unbound
  /\ nNumber = Unbound
  /\ nPc = "idle"
  /\ nFilename = <<>>

\* One iteration of the loop of main, lines 1905-1941, that gets to the
\* filename
FormatFilename ==
  /\ nPc = "start"
  /\ \E code \in VideoCodes, title \in Titles :
       /\ ~RaisesNameError(code, title, nPrefix)
       /\ nCode' = code
       /\ nTitle' = title
       /\ nPrefix' = PrefixAfter(NormalizedCode(code), nPrefix)
       /\ nNumber' = NumberAfter(NormalizedCode(code), nNumber)
       /\ nFilename' = formatted_filename(code, title, nPrefix, nNumber)
       /\ nPc' = "formatted"
  /\ UNCHANGED nameOthers

\* One iteration that raises NameError at line 1930; 'except Exception' of
\* line 2014 ends the iteration without a filename
FormatFilenameRaises ==
  /\ nPc = "start"
  /\ \E code \in VideoCodes, title \in Titles :
       /\ RaisesNameError(code, title, nPrefix)
       /\ nCode' = code
       /\ nTitle' = title
       /\ nFilename' = <<>>
       /\ nPc' = "raised"
  /\ UNCHANGED <<nPrefix, nNumber>>
  /\ UNCHANGED nameOthers

\* The for loop of main takes the next trailer link: the per-video values
\* are about to be reassigned, prefix and number keep their values
NextTrailer ==
  /\ nPc \in {"formatted", "raised"}
  /\ nCode' = <<>>
  /\ nTitle' = <<>>
  /\ nFilename' = <<>>
  /\ nPc' = "start"
  /\ UNCHANGED <<nPrefix, nNumber>>
  /\ UNCHANGED nameOthers

NameNext == FormatFilename \/ FormatFilenameRaises \/ NextTrailer

----------------------------------------------------------------------------
(* Claims about the filename decision                                      *)

\* code is LETTERS-DIGITS and title starts with the same letters in any
\* case, '-', and a number of the same value with any number of leading
\* zeros, the number ending where the title's digits end
CodeLetters(code) == RunLen(code, 1, Letters)

TitleWritesCode(title, code) ==
  LET n  == CodeLetters(code)
      m  == RunLen(title, n + 2, Digits)
  IN  /\ n >= 1
      /\ Len(code) >= n + 2
      /\ code[n + 1] = "-"
      /\ \A i \in (n + 2)..Len(code) : code[i] \in Digits
      /\ Len(title) >= n + 2
      /\ StrUpper(SubSeq(title, 1, n)) = StrUpper(SubSeq(code, 1, n))
      /\ title[n + 1] = "-"
      /\ m >= 1
      /\ LStrip(SubSeq(title, n + 2, n + 1 + m), {"0"})
           = LStrip(SubSeq(code, n + 2, Len(code)), {"0"})

\* C6: whenever the original title starts with the video code written with
\* any case and any number of leading zeros in the number, the title is
\* recognized as containing the code: the filename is the title, without an
\* added code prefix.
C6_PaddedCodeInTitleRecognized ==
  (nPc \in {"formatted", "raised"} /\ TitleWritesCode(nTitle, nCode)) =>
    (nPc = "formatted" /\ nFilename = nTitle)

\* The title starts with the code as a complete token: the letters of the
\* code in any case, an optional '-', and a digit string of the same value
\* as the number of the code that ends where the digits of the title end
TitleStartsWithNumberedCode(title, code) ==
  LET n  == CodeLetters(code)
      h  == IF Len(title) > n /\ title[n + 1] = "-" THEN 1 ELSE 0
      m  == RunLen(title, n + h + 1, Digits)
  IN  /\ n >= 1
      /\ Len(code) >= n + 2
      /\ code[n + 1] = "-"
      /\ \A i \in (n + 2)..Len(code) : code[i] \in Digits
      /\ Len(title) >= n + h + 1
      /\ StrUpper(SubSeq(title, 1, n)) = StrUpper(SubSeq(code, 1, n))
      /\ m >= 1
      /\ LStrip(SubSeq(title, n + h + 1, n + h + m), {"0"})
           = LStrip(SubSeq(code, n + 2, Len(code)), {"0"})

\* A code of letters only: the title starts with these letters in any case
\* and goes on with neither a letter nor a number
TitleStartsWithLetterCode(title, code) ==
  /\ code # <<>>
  /\ CodeLetters(code) = Len(code)
  /\ StartsWith(StrUpper(title), StrUpper(code))
  /\ Len(title) > Len(code) => title[Len(code) + 1] \notin (Letters \cup Digits)
  /\ Len(title) > Len(code) + 1 =>
       ~(title[Len(code) + 1] = "-" /\ title[Len(code) + 2] \in Digits)

TitleStartsWithSameCode(title, code) ==
  TitleStartsWithNumberedCode(title, code) \/ TitleStartsWithLetterCode(title, code)

\* C31: the video code is left out of the filename only when the title
\* starts with that same code (up to case and zero padding) as a complete
\* token; a title that starts with a different code still gets the video
\* code prepended.
C31_CodeLeftOutOnlyForSameCode ==
  (nPc = "formatted" /\ nFilename = nTitle) => TitleStartsWithSameCode(nTitle, nCode)

\* C37: the filename decision for a video depends only on that video's own
\* code and title: it never uses the prefix or number of a previously
\* processed video, and it never fails for a video code without a numeric
\* part.
C37_FilenameFromOwnCodeAndTitle ==
  /\ nPc # "raised"
  /\ nPc = "formatted" => nFilename = formatted_filename(nCode, nTitle, Unbound, Unbound)

\* For a code with letters and a number the decision uses the prefix and
\* number of that code
FilenameFromOwnCodeWhenNumbered ==
  (nPc \in {"formatted", "raised"} /\ CodeParts(NormalizedCode(nCode)).found) =>
    (nPc = "formatted" /\ nFilename = formatted_filename(nCode, nTitle, Unbound, Unbound))

----------------------------------------------------------------------------
(* parse_trailer: title, thumbnail and description                         *)

\* Largest number of img elements / JSON-LD script elements on a page
MaxImgs == 2

MaxJsonLd == 1

\* find_element found no such element (NoSuchElementException)
Absent == "<absent>"

PLACEHOLDER == "https://via.placeholder.com/640x360.png?text=No+Thumbnail"

\* trailer_url.split('/')[-1] of the page
UrlFragment == "url-fragment"

\* An img element: the first selector of image_selectors it matches (the
\* last one, "img", matches every image), its declared width*height (0 when
\* an attribute is missing or not a number) and its src
ImgElements == [sel : {1, 4}, size : {0, 1, 2}, src : {"", "I1", "I2"}]

\* A JSON-LD script element: unparsable or not an object, an object without
\* 'image', with a string image, with an image object holding 'url', or
\* with a list of images
JsonLdKinds == {"invalid", "noimage", "str_url", "dict_url", "list"}

JsonLdName(k) == IF k = "invalid" THEN "" ELSE "LD-name"

Pages ==
  [ogTitle : {Absent, "", "OG-title"},
   ogImage : {Absent, "", "OG-image"},
   ogDesc  : {Absent, "OG-desc"},
   pageTitle : {"", "page-title"},
   jsonld  : SeqsUpTo(JsonLdKinds, MaxJsonLd),
   imgs    : SeqsUpTo(ImgElements, MaxImgs)]

EmptyMeta == [title |-> "", original_title |-> "", thumbnail_url |-> "", description |-> ""]

\* Method 1, lines 409-432: one try block around the three tags; the first
\* missing tag of og:title, og:image raises NoSuchElementException and ends
\* the block, a missing og:description is passed over
OpenGraph(page, m) ==
  IF page.ogTitle = Absent THEN m
  ELSE LET m1 == IF page.ogTitle # ""
                   THEN [m EXCEPT !.title = page.ogTitle, !.original_title = page.ogTitle]
                   ELSE m
       IN  IF page.ogImage = Absent THEN m1
           ELSE LET m2 == IF page.ogImage # ""
                            THEN [m1 EXCEPT !.thumbnail_url = page.ogImage] ELSE m1
                IN  IF page.ogDesc # Absent /\ page.ogDesc # ""
                      THEN [m2 EXCEPT !.description = page.ogDesc] ELSE m2

\* Method 2, lines 435-442
PageTitle(page, m) ==
  IF m.title = "" /\ page.pageTitle # ""
    THEN [m EXCEPT !.title = page.pageTitle, !.original_title = page.pageTitle]
    ELSE m

\* One JSON-LD element, lines 449-464
JsonLdOne(k, m) ==
  IF k = "invalid" THEN m
  ELSE LET m1 == IF m.title = "" THEN [m EXCEPT !.title = JsonLdName(k)] ELSE m
       IN  IF m1.thumbnail_url # "" THEN m1
           ELSE IF k = "str_url" THEN [m1 EXCEPT !.thumbnail_url = "LD-image"]
           ELSE IF k = "dict_url" THEN [m1 EXCEPT !.thumbnail_url = "LD-image-url"]
           ELSE m1

RECURSIVE JsonLd(_, _)
JsonLd(elements, m) ==
  IF elements = <<>> THEN m ELSE JsonLd(Tail(elements), JsonLdOne(Head(elements), m))

\* driver.find_elements for selector number s of image_selectors
FindImages(imgs, s) ==
  IF s = 4 THEN imgs ELSE SelectSeq(imgs, LAMBDA e : e.sel = s)

\* Lines 485-498: the first image of strictly largest declared size, none
\* when no image declares a size
RECURSIVE BestImg(_, _, _)
BestImg(images, best, maxSize) ==
  IF images = <<>> THEN best
  ELSE IF Head(images).size > maxSize
    THEN BestImg(Tail(images), <<Head(images)>>, Head(images).size)
    ELSE BestImg(Tail(images), best, maxSize)

ImageUrl(images) ==
  IF BestImg(images, <<>>, 0) # <<>> THEN BestImg(images, <<>>, 0)[1].src ELSE images[1].src

\* Lines 481-507: the selectors in order; the third selector
\* "img[width>'200'][height>'200']" is not valid CSS: the browser either
\* rejects it (InvalidSelectorException ends the whole search) or finds
\* nothing (sel3Raises says which)
RECURSIVE ImageSearch(_, _, _)
ImageSearch(imgs, s, sel3Raises) ==
  IF s > 4 THEN ""
  ELSE IF s = 3 THEN (IF sel3Raises THEN "" ELSE ImageSearch(imgs, 4, sel3Raises))
  ELSE LET images == FindImages(imgs, s) IN
       IF images # <<>> /\ ImageUrl(images) # "" THEN ImageUrl(images)
       ELSE ImageSearch(imgs, s + 1, sel3Raises)

ProminentImage(page, m, sel3Raises) ==
  IF m.thumbnail_url # "" THEN m
  ELSE [m EXCEPT !.thumbnail_url = ImageSearch(page.imgs, 1, sel3Raises)]

\* Lines 563-572
TitleFallback(m) ==
  IF m.title = "" THEN [m EXCEPT !.title = UrlFragment, !.original_title = UrlFragment] ELSE m

PlaceholderFallback(m) ==
  IF m.thumbnail_url = "" THEN [m EXCEPT !.thumbnail_url = PLACEHOLDER] ELSE m

parse_trailer(page, sel3Raises) ==
  PlaceholderFallback(TitleFallback(
    ProminentImage(page, JsonLd(page.jsonld, PageTitle(page, OpenGraph(page, EmptyMeta))),
                   sel3Raises)))

\* The lookups of meta tags, document title, img elements and of the
\* tag, studio, date and actress elements (driver.find_element(s) and
\* driver.title); the lookup of the JSON-LD script elements is not counted
OpenGraphLookups(page) ==
  IF page.ogTitle = Absent THEN 1 ELSE IF page.ogImage = Absent THEN 2 ELSE 3

PageTitleLookups(page, m) == IF m.title = "" THEN 1 ELSE 0

RECURSIVE ImageLookups(_, _, _)
ImageLookups(imgs, s, sel3Raises) ==
  IF s > 4 THEN 0
  ELSE IF s = 3 THEN 1 + (IF sel3Raises THEN 0 ELSE ImageLookups(imgs, 4, sel3Raises))
  ELSE LET images == FindImages(imgs, s) IN
       IF images # <<>> /\ ImageUrl(images) # "" THEN 1
       ELSE 1 + ImageLookups(imgs, s + 1, sel3Raises)

\* Lines 511, 535, 549, 584: tags, studio, release date, actress
DetailLookups == 4

DomLookups(page, sel3Raises) ==
  LET m1 == OpenGraph(page, EmptyMeta)
      m3 == JsonLd(page.jsonld, PageTitle(page, m1))
  IN  OpenGraphLookups(page) + PageTitleLookups(page, m1)
        + (IF m3.thumbnail_url = "" THEN ImageLookups(page.imgs, 1, sel3Raises) ELSE 0)
        + DetailLookups

ParseInit ==
  /\ pPage \in Pages
  /\ pPc = "ready"
  /\ pMeta = EmptyMeta
  /\ pDomCalls = 0

ParseIdle ==
  /\ pPage = <<>>
  /\ pPc = "idle"
  /\ pMeta = EmptyMeta
  /\ pDomCalls = 0

ParseTrailer ==
  /\ pPc = "ready"
  /\ \E sel3Raises \in BOOLEAN :
       /\ pMeta' = parse_trailer(pPage, sel3Raises)
       /\ pDomCalls' = DomLookups(pPage, sel3Raises)
  /\ pPc' = "done"
  /\ UNCHANGED pPage
  /\ UNCHANGED parseOthers

ParseNext == ParseTrailer

----------------------------------------------------------------------------
(* Claims about parse_trailer                                              *)

\* Some extraction layer of the page, taken on its own, yields an image
\* URL: the og:image tag has one, the JSON-LD elements give one, or the
\* search over the image elements finds one however the browser treats the
\* third selector
LayerHasImage(page) ==
  \/ page.ogImage \notin {Absent, ""}
  \/ JsonLd(page.jsonld, EmptyMeta).thumbnail_url # ""
  \/ \A b \in BOOLEAN : ImageSearch(page.imgs, 1, b) # ""

\* C7: the returned record never has an empty thumbnail_url, and it has the
\* placeholder only when no layer of the page (Open Graph image, JSON-LD
\* image, image elements) can supply an image URL.
C7_PlaceholderOnlyWhenNoImage ==
  pPc = "done" =>
    /\ pMeta.thumbnail_url # ""
    /\ pMeta.thumbnail_url = PLACEHOLDER => ~LayerHasImage(pPage)

\* A page whose embedded structured data (JSON-LD) is a single video entry
\* with a name and an image
SingleVideoEntry(page) ==
  Len(page.jsonld) = 1 /\ page.jsonld[1] \in {"str_url", "dict_url"}

StructuredImage(k) == IF k = "str_url" THEN "LD-image" ELSE "LD-image-url"

\* C19: the structured data is tried first for each field and the DOM
\* lookups only for the fields it left empty: for a page whose structured
\* data holds a single video entry, title and thumbnail of the record come
\* from the structured data and no DOM lookup is made.
C19_StructuredDataFirst ==
  (pPc = "done" /\ SingleVideoEntry(pPage)) =>
    /\ pMeta.title = JsonLdName(pPage.jsonld[1])
    /\ pMeta.thumbnail_url = StructuredImage(pPage.jsonld[1])
    /\ pDomCalls = 0

\* For such a page the structured data is used for the fields the meta
\* tags and the document title left empty
StructuredDataFillsEmptyFields ==
  (pPc = "done" /\ SingleVideoEntry(pPage)) =>
    /\ (pPage.ogTitle \in {Absent, ""} /\ pPage.pageTitle = "")
         => pMeta.title = JsonLdName(pPage.jsonld[1])
    /\ (pPage.ogTitle = Absent \/ pPage.ogImage \in {Absent, ""})
         => pMeta.thumbnail_url = StructuredImage(pPage.jsonld[1])

\* C27: each field is resolved independently: with an Open Graph image but
\* no Open Graph title, thumbnail_url is still the Open Graph image, and the
\* Open Graph description is read whether or not the title and image tags
\* exist.
C27_FieldsResolvedIndependently ==
  pPc = "done" =>
    /\ (pPage.ogTitle = Absent /\ pPage.ogImage \notin {Absent, ""})
         => pMeta.thumbnail_url = pPage.ogImage
    /\ pPage.ogDesc \notin {Absent, ""} => pMeta.description = pPage.ogDesc

\* When the og:title and og:image tags both exist, image and description
\* are read
OpenGraphReadWhenTitlePresent ==
  (pPc = "done" /\ pPage.ogTitle # Absent /\ pPage.ogImage # Absent) =>
    /\ pPage.ogImage # "" => pMeta.thumbnail_url = pPage.ogImage
    /\ pPage.ogDesc \notin {Absent, ""} => pMeta.description = pPage.ogDesc

----------------------------------------------------------------------------
(* app.download -> get_video_details -> download_assets                    *)

\* Largest number of distinct screenshot URLs on a video page
MaxRaw == 12

\* Cap of the screenshots sequence of a metadata record
MAX_SCREENSHOTS == 10

\* URLs are <<kind, n>>: screenshots and icon/logo images
ShotUrl(n) == <<"shot", n>>

IconUrl == <<"icon", 1>>

IsIconUrl(u) == u[1] = "icon"

\* The URLs of a page in document order: up to two leading URLs (an icon, a
\* repetition of the first screenshot) and the screenshots 1..n
RawLists ==
  {pre \o [i \in 1..n |-> ShotUrl(i)] :
     pre \in {<<>>, <<ShotUrl(1)>>, <<IconUrl>>, <<IconUrl, ShotUrl(1)>>}, n \in 0..MaxRaw}

\* First occurrences only, in order
RECURSIVE Dedup(_, _)
Dedup(s, seen) ==
  IF s = <<>> THEN <<>>
  ELSE IF Head(s) \in seen THEN Dedup(Tail(s), seen)
  ELSE <<Head(s)>> \o Dedup(Tail(s), seen \cup {Head(s)})

\* The screenshots field of a metadata record: no icon/logo URL, no URL
\* twice, at most MAX_SCREENSHOTS entries
Screenshots(raw) ==
  LET clean == Dedup(SelectSeq(raw, LAMBDA u : ~IsIconUrl(u)), {})
  IN  SubSeq(clean, 1, Min(Len(clean), MAX_SCREENSHOTS))

\* get_video_details(video_url), as far as download_assets reads the record
get_video_details(raw, trailer, thumb) ==
  [trailer_url |-> trailer, thumbnail_url |-> thumb, screenshots |-> Screenshots(raw)]

NoDetails == [trailer_url |-> "", thumbnail_url |-> "", screenshots |-> <<>>]

NoResults == [trailer |-> FALSE, thumbnail |-> FALSE, screenshots |-> <<>>,
              total_screenshots |-> 0, successful_screenshots |-> 0]

AssetsInit ==
  /\ aRaw = <<>>
  /\ aDetails = NoDetails
  /\ aPc = "request"
  /\ aResults = NoResults
  /\ aAttempts = 0

AssetsIdle ==
  /\ aRaw = <<>>
  /\ aDetails = NoDetails
  /\ aPc = "idle"
  /\ aResults = NoResults
  /\ aAttempts = 0

\* video_details.get('screenshots', []) as the loop of line 223 walks it
ShotsToDownload_Twice(details) == details.screenshots \o details.screenshots

ShotsToDownload(details) == details.screenshots

\* app.download up to the screenshot loop: get_video_details, then
\* download_assets lines 184-221: the trailer is fetched when there is a
\* trailer_url, the thumbnail when there is a thumbnail_url that is not the
\* 'no-image.jpg' default; download_file returns True or False
DownloadRequest ==
  /\ aPc = "request"
  /\ \E raw \in RawLists, trailer \in {"", "trailer.mp4"},
        thumb \in {"", "no-image.jpg", "thumb.jpg"}, okT \in BOOLEAN, okI \in BOOLEAN :
       /\ aRaw' = raw
       /\ aDetails' = get_video_details(raw, trailer, thumb)
       /\ aResults' = [NoResults EXCEPT
                         !.trailer = (trailer # "" /\ okT),
                         !.thumbnail = (thumb \notin {"", "no-image.jpg"} /\ okI)]
  /\ aPc' = "shots"
  /\ UNCHANGED aAttempts
  /\ UNCHANGED assetOthers

\* Lines 226-230: the entry appended for the i-th screenshot; the path is
\* the number in the file name, 0 stands for None
ScreenshotEntry_PathAlways(url, success, i) ==
  [url |-> url, success |-> success, path |-> i]

ScreenshotEntry(url, success, i) ==
  [url |-> url, success |-> success, path |-> IF success THEN i ELSE 0]

\* One iteration of the loop of lines 223-230
DownloadScreenshot ==
  /\ aPc = "shots"
  /\ Len(aResults.screenshots) < Len(ShotsToDownload(aDetails))
  /\ \E success \in BOOLEAN :
       LET i   == Len(aResults.screenshots) + 1
           url == ShotsToDownload(aDetails)[i]
       IN  aResults' = [aResults EXCEPT !.screenshots =
                          Append(@, ScreenshotEntry(url, success, i))]
  /\ aAttempts' = aAttempts + 1
  /\ UNCHANGED <<aRaw, aDetails, aPc>>
  /\ UNCHANGED assetOthers

\* End of the loop and the summary, lines 232-242
AssetsSummary ==
  /\ aPc = "shots"
  /\ Len(aResults.screenshots) = Len(ShotsToDownload(aDetails))
  /\ aResults' = [aResults EXCEPT
                    !.total_screenshots = Len(aDetails.screenshots),
                    !.successful_screenshots =
                       Cardinality({i \in 1..Len(aResults.screenshots) :
                                      aResults.screenshots[i].success})]
  /\ aPc' = "done"
  /\ UNCHANGED <<aRaw, aDetails, aAttempts>>
  /\ UNCHANGED assetOthers

AssetsNext == DownloadRequest \/ DownloadScreenshot \/ AssetsSummary

----------------------------------------------------------------------------
(* Claims about the screenshots                                            *)

NoDuplicates(s) == \A i, j \in 1..Len(s) : s[i] = s[j] => i = j

\* C8: the screenshots sequence of a record that reaches download_assets has
\* at most 10 entries, no URL twice and no icon/logo URL, and download_assets
\* never attempts more than 10 screenshot downloads for one video.
C8_AtMostTenScreenshots ==
  aPc \in {"shots", "done"} =>
    /\ Len(aDetails.screenshots) <= 10
    /\ NoDuplicates(aDetails.screenshots)
    /\ \A i \in 1..Len(aDetails.screenshots) : ~IsIconUrl(aDetails.screenshots[i])
    /\ aAttempts <= 10

\* C8 witness: a page with an icon, a repeated URL and more than ten
\* screenshots; ten downloads were attempted
C8_Witness ==
  /\ aPc = "done"
  /\ Len(aRaw) > 12
  /\ \E i \in 1..Len(aRaw) : IsIconUrl(aRaw[i])
  /\ ~NoDuplicates(aRaw)
  /\ aAttempts = 10
  /\ aResults.total_screenshots = 10

\* The entries of a result with success true
SuccessfulEntries(results) ==
  {i \in 1..Len(results.screenshots) : results.screenshots[i].success}

\* C33: the result of download_assets has one screenshot entry per input
\* screenshot URL in input order, an entry's path is non-null exactly when
\* its success flag is true, total_screenshots is the number of input URLs
\* and successful_screenshots the number of entries with success true.
C33_AssetsResultConsistent ==
  aPc = "done" =>
    /\ Len(aResults.screenshots) = Len(aDetails.screenshots)
    /\ \A i \in 1..Len(aResults.screenshots) :
         /\ aResults.screenshots[i].url = aDetails.screenshots[i]
         /\ aResults.screenshots[i].path # 0 <=> aResults.screenshots[i].success
    /\ aResults.total_screenshots = Len(aDetails.screenshots)
    /\ aResults.successful_screenshots = Cardinality(SuccessfulEntries(aResults))
    /\ aResults.successful_screenshots \in 0..aResults.total_screenshots

\* Three screenshots, the second of which failed
C33_Witness ==
  /\ aPc = "done"
  /\ aResults.total_screenshots = 3
  /\ aResults.successful_screenshots = 2
  /\ ~aResults.screenshots[2].success /\ aResults.screenshots[2].path = 0
  /\ aResults.screenshots[3].path = 3

----------------------------------------------------------------------------
(* cleanup_incomplete_downloads                                            *)

\* Largest number of video-code directories of the performer directory
MaxVideoDirs == 2

VideoDirNames == 1..MaxVideoDirs

\* A video-code directory: whether it exists, its .mp4, .jpg and .json file
\* (absent, empty or with data) and whether it holds a sub-directory
\* (download_assets creates screenshots/ there, downloader.py line 220)
VideoDirs ==
  [present : {TRUE}, mp4 : FileStates, jpg : FileStates, json : FileStates, sub : BOOLEAN]

NoVideoDir ==
  [present |-> FALSE, mp4 |-> "absent", jpg |-> "absent", json |-> "absent", sub |-> FALSE]

\* The downloads tree: one performer directory with its video-code
\* directories and possibly a plain file next to them
Trees ==
  [present : {TRUE}, stray : BOOLEAN, videos : [VideoDirNames -> VideoDirs \cup {NoVideoDir}]]

\* Lines 2113-2127: has_video and has_thumbnail and has_metadata
IsComplete(d) == d.mp4 = "data" /\ d.jpg = "data" /\ d.json = "data"

\* Lines 2129-2139 for an incomplete directory d, with result e: without a
\* sub-directory every file is removed and then the directory; with one,
\* os.remove raises on the sub-directory, so the files that os.listdir
\* returned before it are gone, the others and the directory stay
RemovedOrKept(before, after) == after = before \/ (before # "absent" /\ after = "absent")

DeleteOutcome(d, e) ==
  IF ~d.sub THEN e = NoVideoDir
  ELSE /\ e.present /\ e.sub
       /\ RemovedOrKept(d.mp4, e.mp4)
       /\ RemovedOrKept(d.jpg, e.jpg)
       /\ RemovedOrKept(d.json, e.json)

\* One video-code directory d of the inner loop, with result e
VideoDirOutcome(d, e) ==
  IF ~d.present \/ IsComplete(d) THEN e = d ELSE DeleteOutcome(d, e)

\* The inner loop of lines 2107-2142 over the directories 1..n: every way
\* it can leave them
DirOutcomes(d) == {e \in VideoDirs \cup {NoVideoDir} : VideoDirOutcome(d, e)}

RECURSIVE LoopOutcomes(_, _)
LoopOutcomes(videos, n) ==
  IF n = 0 THEN {<<>>}
  ELSE {Append(f, e) : f \in LoopOutcomes(videos, n - 1), e \in DirOutcomes(videos[n])}

\* Lines 2144-2150: the performer directory is removed when os.listdir
\* returns nothing
PerformerRemains(stray, videos) == stray \/ \E v \in VideoDirNames : videos[v].present

CleanupCounts(before, after) ==
  [deleted |-> Cardinality({v \in VideoDirNames : before[v].present /\ ~after[v].present}),
   kept    |-> Cardinality({v \in VideoDirNames : before[v].present /\ IsComplete(before[v])})]

CleanupInit ==
  /\ fTree0 \in Trees
  /\ fTree = fTree0
  /\ fPrev = fTree0
  /\ fPc = "ready"
  /\ fCounts = [deleted |-> 0, kept |-> 0]

CleanupIdle ==
  /\ fTree0 = <<>>
  /\ fTree = <<>>
  /\ fPrev = <<>>
  /\ fPc = "idle"
  /\ fCounts = [deleted |-> 0, kept |-> 0]

\* cleanup_incomplete_downloads(base_dir)
Cleanup ==
  /\ fPc = "ready"
  /\ \E videos \in LoopOutcomes(fTree.videos, MaxVideoDirs) :
       /\ fTree' = [present |-> PerformerRemains(fTree.stray, videos),
                    stray   |-> fTree.stray,
                    videos  |-> videos]
       /\ fCounts' = CleanupCounts(fTree.videos, videos)
  /\ fPc' = "done"
  /\ UNCHANGED <<fTree0, fPrev>>
  /\ UNCHANGED fsOthers

\* cleanup_incomplete_downloads(base_dir) called once more on the tree the
\* first call left; a performer directory that was removed is not listed
\* (line 2101)
CleanupAgain ==
  /\ fPc = "done"
  /\ fPrev' = fTree
  /\ IF fTree.present
     THEN \E videos \in LoopOutcomes(fTree.videos, MaxVideoDirs) :
            /\ fTree' = [present |-> PerformerRemains(fTree.stray, videos),
                         stray   |-> fTree.stray,
                         videos  |-> videos]
            /\ fCounts' = CleanupCounts(fTree.videos, videos)
     ELSE /\ fTree' = fTree
          /\ fCounts' = [deleted |-> 0, kept |-> 0]
  /\ fPc' = "again"
  /\ UNCHANGED fTree0
  /\ UNCHANGED fsOthers

CleanupNext == Cleanup \/ CleanupAgain

----------------------------------------------------------------------------
(* Claims about cleanup_incomplete_downloads                               *)

\* The tree of C9: one video-code directory lacks a non-empty thumbnail,
\* it has at least one sibling, and every sibling is complete
LacksThumbnail(d) == d.present /\ d.jpg # "data"

OneLacksThumbnail(tree, v) ==
  /\ LacksThumbnail(tree.videos[v])
  /\ \E w \in VideoDirNames : w # v
  /\ \A w \in VideoDirNames : w # v => IsComplete(tree.videos[w])

\* C9: in a tree where one video-code directory lacks a non-empty thumbnail
\* and its siblings are complete, cleanup removes exactly that directory and
\* leaves the siblings unchanged; and no performer directory without
\* entries is left behind.
C9_IncompleteRemovedSiblingsKept ==
  fPc = "done" =>
    /\ \A v \in VideoDirNames :
         OneLacksThumbnail(fTree0, v) =>
           /\ ~fTree.videos[v].present
           /\ \A w \in VideoDirNames : w # v => fTree.videos[w] = fTree0.videos[w]
    /\ fTree.present => PerformerRemains(fTree.stray, fTree.videos)

\* C10: after cleanup, every video-code directory still present holds a
\* non-empty .mp4, a non-empty .jpg and a metadata .json file.
C10_RemainingDirsComplete ==
  fPc = "done" =>
    \A v \in VideoDirNames :
      fTree.videos[v].present =>
        /\ fTree.videos[v].mp4 = "data"
        /\ fTree.videos[v].jpg = "data"
        /\ fTree.videos[v].json # "absent"

\* C9 and C10 hold of the trees whose video-code directories have no
\* sub-directory
FlatTree(tree) == \A v \in VideoDirNames : ~tree.videos[v].sub

CleanupOnFlatTrees ==
  (fPc = "done" /\ FlatTree(fTree0)) =>
    /\ \A v \in VideoDirNames :
         fTree.videos[v] = IF IsComplete(fTree0.videos[v]) THEN fTree0.videos[v] ELSE NoVideoDir
    /\ fTree.present = PerformerRemains(fTree0.stray, fTree.videos)

\* C11: cleanup_incomplete_downloads is idempotent: a second call on the
\* tree the first call produced changes nothing in the tree and deletes no
\* directory.
C11_CleanupIdempotent ==
  fPc = "again" => (fTree = fPrev /\ fCounts.deleted = 0)

\* C21: cleanup is all-or-nothing per video-code directory: each directory
\* that existed before is afterwards either present with exactly the files
\* it had, or absent; none survives with part of its former content.
C21_AllOrNothingPerDirectory ==
  fPc = "done" =>
    \A v \in VideoDirNames :
      fTree0.videos[v].present =>
        (fTree.videos[v] = fTree0.videos[v] \/ ~fTree.videos[v].present)

\* C21 holds of the trees whose video-code directories have no
\* sub-directory
AllOrNothingOnFlatTrees ==
  (fPc = "done" /\ FlatTree(fTree0)) =>
    \A v \in VideoDirNames :
      fTree0.videos[v].present =>
        (fTree.videos[v] = fTree0.videos[v] \/ ~fTree.videos[v].present)

\* C11 holds of the trees whose video-code directories have no
\* sub-directory
CleanupIdempotentOnFlatTrees ==
  (fPc = "again" /\ FlatTree(fTree0)) => (fTree = fPrev /\ fCounts.deleted = 0)

----------------------------------------------------------------------------
(* main: browser session, the per-video loop and teardown                  *)

\* Largest number of trailer links get_trailer_pages returns
MaxLinks == 3

LinkIds == 1..MaxLinks

\* How a step of main can end: it returns, it raises an Exception, or a
\* KeyboardInterrupt is raised while it runs.  "swallowed" is a
\* KeyboardInterrupt raised inside a bare 'except:' block of the step
\* (parse_trailer lines 489-498, extract_video_source lines 900-904), which
\* catches it, so the step goes on and returns.
StepOutcomes == {"ok", "raise", "interrupt"}

BareExceptOutcomes == StepOutcomes \cup {"swallowed"}

DownloadOutcomes == {"True", "False", "raise", "interrupt"}

NoJson == [i \in LinkIds |-> 0]

MainInit ==
  /\ mPc = "init"
  /\ mSession = "none"
  /\ mDriver = "None"
  /\ mQuits = 0
  /\ mLateOps = 0
  /\ mLinks = 0
  /\ mI = 0
  /\ mTried = {}
  /\ mFailed = {}
  /\ mJson = NoJson
  /\ mThumb = FALSE
  /\ mVideo = FALSE
  /\ mStop = "unset"
  /\ mBoth = {}
  /\ mInterrupted = FALSE
  /\ mAfter = 0
  /\ mEnd = "running"

MainIdle ==
  /\ mPc = "idle"
  /\ mSession = "none"
  /\ mDriver = "None"
  /\ mQuits = 0
  /\ mLateOps = 0
  /\ mLinks = 0
  /\ mI = 0
  /\ mTried = {}
  /\ mFailed = {}
  /\ mJson = NoJson
  /\ mThumb = FALSE
  /\ mVideo = FALSE
  /\ mStop = "unset"
  /\ mBoth = {}
  /\ mInterrupted = FALSE
  /\ mAfter = 0
  /\ mEnd = "running"

\* A browser operation is issued: counted when the session is closed
BrowserOp == mLateOps' = IF mSession = "closed" THEN mLateOps + 1 ELSE mLateOps

\* A step of the current video runs: counted when a KeyboardInterrupt was
\* raised before it
VideoStep == mAfter' = IF mInterrupted THEN mAfter + 1 ELSE mAfter

\* The try block of lines 1804-2018 is left with an exception (line 2022)
\* or a KeyboardInterrupt (line 2020); both handlers only log
LeaveTry(how) == mPc' = "finally" /\ mEnd' = how

\* Line 2014-2018: 'except Exception' of the loop body logs and continues
\* with the next trailer link
ExceptContinue == mPc' = "head" /\ mI' = mI + 1 /\ UNCHANGED mEnd

\* init_driver line 77: webdriver.Chrome(...) starts the browser session
InitDriverCreate ==
  /\ mPc = "init"
  /\ \E o \in StepOutcomes :
       IF o = "ok"
       THEN /\ mSession' = "open"
            /\ mPc' = "configure"
            /\ UNCHANGED mEnd
       ELSE /\ LeaveTry(IF o = "raise" THEN "exception" ELSE "interrupt")
            /\ UNCHANGED mSession
  /\ UNCHANGED <<mDriver, mQuits, mLateOps, mLinks, mI, mTried, mFailed, mJson,
                 mThumb, mVideo, mStop, mBoth, mInterrupted, mAfter>>
  /\ UNCHANGED mainOthers

\* init_driver lines 78-113 (set_page_load_timeout, execute_cdp_cmd,
\* driver.get('about:blank')) and the assignment of line 1805, which
\* happens only when init_driver returns
InitDriverConfigure ==
  /\ mPc = "configure"
  /\ BrowserOp
  /\ \E o \in StepOutcomes :
       IF o = "ok"
       THEN /\ mDriver' = "set"
            /\ mPc' = "setup"
            /\ UNCHANGED mEnd
       ELSE /\ LeaveTry(IF o = "raise" THEN "exception" ELSE "interrupt")
            /\ UNCHANGED mDriver
  /\ UNCHANGED <<mSession, mQuits, mLinks, mI, mTried, mFailed, mJson,
                 mThumb, mVideo, mStop, mBoth, mInterrupted, mAfter>>
  /\ UNCHANGED mainOthers

\* Lines 1806-1828: cast page, cast links, trailer links; return when there
\* are none
CollectLinks ==
  /\ mPc = "setup"
  /\ BrowserOp
  /\ \E o \in StepOutcomes, n \in 0..MaxLinks :
       IF o = "ok"
       THEN /\ mLinks' = n
            /\ IF n = 0
               THEN LeaveTry("return") /\ UNCHANGED mI
               ELSE mPc' = "head" /\ mI' = 1 /\ UNCHANGED mEnd
       ELSE /\ LeaveTry(IF o = "raise" THEN "exception" ELSE "interrupt")
            /\ UNCHANGED <<mLinks, mI>>
  /\ UNCHANGED <<mSession, mDriver, mQuits, mTried, mFailed, mJson,
                 mThumb, mVideo, mStop, mBoth, mInterrupted, mAfter>>
  /\ UNCHANGED mainOthers

\* Line 1831: the for statement takes the next trailer link or ends
LoopHead ==
  /\ mPc = "head"
  /\ IF mI <= mLinks
     THEN /\ mTried' = mTried \cup {mI}
          /\ mPc' = "parse"
          /\ UNCHANGED mEnd
     ELSE /\ LeaveTry("normal")
          /\ UNCHANGED mTried
  /\ UNCHANGED <<mSession, mDriver, mQuits, mLateOps, mLinks, mI, mFailed, mJson,
                 mThumb, mVideo, mStop, mBoth, mInterrupted, mAfter>>
  /\ UNCHANGED mainOthers

\* Line 1837: parse_trailer under retry_with_backoff; "raise" is the
\* exception of the last attempt
ParseStep ==
  /\ mPc = "parse"
  /\ BrowserOp
  /\ VideoStep
  /\ \E o \in BareExceptOutcomes :
       CASE o = "ok" ->
              /\ mPc' = "dirs"
              /\ UNCHANGED <<mI, mEnd, mFailed, mInterrupted>>
         [] o = "swallowed" ->
              /\ mPc' = "dirs"
              /\ mInterrupted' = TRUE
              /\ UNCHANGED <<mI, mEnd, mFailed>>
         [] o = "raise" ->
              /\ ExceptContinue
              /\ mFailed' = mFailed \cup {mI}
              /\ UNCHANGED mInterrupted
         [] o = "interrupt" ->
              /\ LeaveTry("interrupt")
              /\ mInterrupted' = TRUE
              /\ UNCHANGED <<mI, mFailed>>
  /\ UNCHANGED <<mSession, mDriver, mQuits, mLinks, mTried, mJson, mThumb, mVideo, mStop, mBoth>>
  /\ UNCHANGED mainOthers

\* Lines 1840-1899: thumbnail and code checks (parse_trailer returns neither
\* empty), title reconciliation, ensure_directories
DirectoryStep ==
  /\ mPc = "dirs"
  /\ VideoStep
  /\ \E o \in StepOutcomes :
       CASE o = "ok" ->
              /\ mPc' = "name"
              /\ UNCHANGED <<mI, mEnd, mFailed, mInterrupted>>
         [] o = "raise" ->
              /\ ExceptContinue
              /\ mFailed' = mFailed \cup {mI}
              /\ UNCHANGED mInterrupted
         [] o = "interrupt" ->
              /\ LeaveTry("interrupt")
              /\ mInterrupted' = TRUE
              /\ UNCHANGED <<mI, mFailed>>
  /\ UNCHANGED <<mSession, mDriver, mQuits, mLateOps, mLinks, mTried, mJson,
                 mThumb, mVideo, mStop, mBoth>>
  /\ UNCHANGED mainOthers

\* Lines 1905-1957: the filename (a NameError when prefix is unbound,
\* line 1930) and the two flags
FilenameStep ==
  /\ mPc = "name"
  /\ VideoStep
  /\ \E o \in StepOutcomes :
       CASE o = "ok" ->
              /\ mPc' = "thumb"
              /\ mThumb' = FALSE
              /\ mVideo' = FALSE
              /\ UNCHANGED <<mI, mEnd, mFailed, mInterrupted>>
         [] o = "raise" ->
              /\ ExceptContinue
              /\ mFailed' = mFailed \cup {mI}
              /\ UNCHANGED <<mInterrupted, mThumb, mVideo>>
         [] o = "interrupt" ->
              /\ LeaveTry("interrupt")
              /\ mInterrupted' = TRUE
              /\ UNCHANGED <<mI, mFailed, mThumb, mVideo>>
  /\ UNCHANGED <<mSession, mDriver, mQuits, mLateOps, mLinks, mTried, mJson, mStop, mBoth>>
  /\ UNCHANGED mainOthers

\* Lines 1960-1964: download_thumbnail in its own try
ThumbnailStep ==
  /\ mPc = "thumb"
  /\ VideoStep
  /\ \E o \in DownloadOutcomes :
       CASE o = "True" ->
              /\ mThumb' = TRUE
              /\ mPc' = "video"
              /\ UNCHANGED <<mEnd, mFailed, mInterrupted>>
         [] o \in {"False", "raise"} ->
              /\ mPc' = "video"
              /\ mFailed' = mFailed \cup {mI}
              /\ UNCHANGED <<mEnd, mThumb, mInterrupted>>
         [] o = "interrupt" ->
              /\ LeaveTry("interrupt")
              /\ mInterrupted' = TRUE
              /\ UNCHANGED <<mFailed, mThumb>>
  /\ UNCHANGED <<mSession, mDriver, mQuits, mLateOps, mLinks, mI, mTried, mJson,
                 mVideo, mStop, mBoth>>
  /\ UNCHANGED mainOthers

\* Lines 1967-1980: download_video in its own try; stop_after_success is
\* assigned only when it returned True
VideoStepOutcomes == DownloadOutcomes \cup {"swallowed-True", "swallowed-False"}

DownloadStep ==
  /\ mPc = "video"
  /\ BrowserOp
  /\ VideoStep
  /\ \E o \in VideoStepOutcomes :
       CASE o \in {"True", "swallowed-True"} ->
              /\ mVideo' = TRUE
              /\ mStop' = IF mThumb THEN "True" ELSE "False"
              /\ mBoth' = IF mThumb THEN mBoth \cup {mI} ELSE mBoth
              /\ mPc' = "json"
              /\ mInterrupted' = (mInterrupted \/ o = "swallowed-True")
              /\ UNCHANGED <<mEnd, mFailed>>
         [] o \in {"False", "raise", "swallowed-False"} ->
              /\ mPc' = "json"
              /\ mFailed' = mFailed \cup {mI}
              /\ mInterrupted' = (mInterrupted \/ o = "swallowed-False")
              /\ UNCHANGED <<mEnd, mVideo, mStop, mBoth>>
         [] o = "interrupt" ->
              /\ LeaveTry("interrupt")
              /\ mInterrupted' = TRUE
              /\ UNCHANGED <<mFailed, mVideo, mStop, mBoth>>
  /\ UNCHANGED <<mSession, mDriver, mQuits, mLinks, mI, mTried, mJson, mThumb>>
  /\ UNCHANGED mainOthers

\* Line 2008: 'stop_after_success' in locals() and stop_after_success; the
\* local keeps the value of an earlier iteration
StopRequested == mStop = "True"

\* Lines 1983-2012: the metadata file; on success the break of line 2010
MetadataStep ==
  /\ mPc = "json"
  /\ VideoStep
  /\ \E o \in StepOutcomes :
       CASE o = "ok" ->
              /\ mJson' = [mJson EXCEPT ![mI] = @ + 1]
              /\ IF StopRequested
                 THEN LeaveTry("break") /\ UNCHANGED mI
                 ELSE mPc' = "head" /\ mI' = mI + 1 /\ UNCHANGED mEnd
              /\ UNCHANGED mInterrupted
         [] o = "raise" ->
              /\ mPc' = "head"
              /\ mI' = mI + 1
              /\ UNCHANGED <<mEnd, mJson, mInterrupted>>
         [] o = "interrupt" ->
              /\ LeaveTry("interrupt")
              /\ mInterrupted' = TRUE
              /\ UNCHANGED <<mI, mJson>>
  /\ UNCHANGED <<mSession, mDriver, mQuits, mLateOps, mLinks, mTried, mFailed,
                 mThumb, mVideo, mStop, mBoth>>
  /\ UNCHANGED mainOthers

\* Lines 2026-2029: finally: if driver: driver.quit()
Teardown ==
  IF mDriver = "set"
  THEN mSession' = "closed" /\ mQuits' = mQuits + 1
  ELSE UNCHANGED <<mSession, mQuits>>

Finally ==
  /\ mPc = "finally"
  /\ Teardown
  /\ mPc' = "exit"
  /\ UNCHANGED <<mDriver, mLateOps, mLinks, mI, mTried, mFailed, mJson, mThumb, mVideo,
                 mStop, mBoth, mInterrupted, mAfter, mEnd>>
  /\ UNCHANGED mainOthers

MainNext ==
  \/ InitDriverCreate
  \/ InitDriverConfigure
  \/ CollectLinks
  \/ LoopHead
  \/ ParseStep
  \/ DirectoryStep
  \/ FilenameStep
  \/ ThumbnailStep
  \/ DownloadStep
  \/ MetadataStep
  \/ Finally

----------------------------------------------------------------------------
(* Claims about main                                                       *)

\* C12: for every trailer URL main attempts, exactly one metadata JSON file
\* is written for that video, whether the video was retrieved, retrieval
\* failed or a step of processing it raised an exception.
C12_OneMetadataFilePerVideo ==
  (mPc = "exit" /\ mEnd \in {"normal", "break"}) =>
    \A i \in mTried : mJson[i] = 1

\* C16: a failure while processing one video never ends the crawl: after a
\* video with a failed step the loop proceeds to the next trailer link.
C16_FailureNeverEndsCrawl ==
  (mPc = "exit" /\ ~mInterrupted) =>
    \A i \in mFailed : i < mLinks => (i + 1) \in mTried

\* The loop body's handlers alone never end the crawl: without the break
\* of line 2010 every trailer link is attempted
EveryLinkAttemptedWithoutBreak ==
  (mPc = "exit" /\ mEnd = "normal") => mTried = 1..mLinks

\* C17: on every exit path of main after the browser session was created,
\* the session is closed exactly once, and no browser operation is issued
\* after it is closed.
C17_SessionClosedExactlyOnce ==
  /\ (mPc = "exit" /\ mSession # "none") => (mSession = "closed" /\ mQuits = 1)
  /\ mLateOps = 0

\* Once init_driver has returned the session to main, every exit path
\* closes it exactly once
SessionClosedOnceAfterInitDriver ==
  /\ (mPc = "exit" /\ mDriver = "set") => (mSession = "closed" /\ mQuits = 1)
  /\ mQuits <= 1
  /\ mLateOps = 0

\* C18: once a KeyboardInterrupt was raised while main processes a video,
\* main runs no further step of that video and no further video; it goes
\* to the teardown.
C18_InterruptStopsProcessing ==
  mInterrupted => (mAfter = 0 /\ mPc \in {"finally", "exit"})

\* C36: main processes the trailer links in list order and stops the crawl
\* at the first video for which video and thumbnail were retrieved and the
\* metadata was written; so at most one video ends with both assets, and
\* all links are processed only if no video gets both.
C36_StopsAtFirstCompleteVideo ==
  (mPc = "exit" /\ mEnd \in {"normal", "break"} /\ ~mInterrupted) =>
    /\ \E k \in 0..mLinks : mTried = 1..k
    /\ (mEnd = "break" => (mI \in mBoth /\ mJson[mI] = 1))
    /\ \A i \in mBoth : mJson[i] = 1 => (mEnd = "break" /\ mI = i)
    /\ Cardinality(mBoth) <= 1
    /\ ((mEnd = "normal" /\ mTried = 1..mLinks) => mBoth = {})

\* The links are taken in list order, and a video with both assets whose
\* metadata file was written is the one the crawl stops at
CompleteVideoEndsCrawl ==
  (mPc = "exit" /\ mEnd \in {"normal", "break"} /\ ~mInterrupted) =>
    /\ \E k \in 0..mLinks : mTried = 1..k
    /\ \A i \in mBoth : mJson[i] = 1 => (mEnd = "break" /\ mI = i)

----------------------------------------------------------------------------
(* main: reconciliation of the title with the description                  *)

\* Longest title or description, in words
MaxWords == 2

\* Titles and descriptions are sequences of words: the generic phrase
\* 'Jav streaming Online Japanese Adult Video' of lines 1861 and 1869, the
\* video code, and another word
GENERIC == "Jav streaming Online Japanese Adult Video"

CodeWord == "AA-007"

OtherWord == "x"

Words == {GENERIC, CodeWord, OtherWord}

WordLen(w) == CASE w = GENERIC -> 41 [] w = CodeWord -> 6 [] OTHER -> 1

\* len(s), the words joined by single spaces
RECURSIVE StrLen(_)
StrLen(s) == IF s = <<>> THEN 0
             ELSE WordLen(Head(s)) + (IF Len(s) > 1 THEN 1 ELSE 0) + StrLen(Tail(s))

\* w in s
Contains(w, s) == \E i \in 1..Len(s) : s[i] = w

Texts == SeqsUpTo(Words, MaxWords)

\* What parse_trailer returns: the title is never empty (lines 563-567),
\* original_title is the title or, when the title came from JSON-LD
\* (line 455), empty
ParsedTitles ==
  {m \in [title : Texts \ {<<>>}, original_title : Texts, description : Texts] :
     m.original_title \in {m.title, <<>>}}

\* Lines 1861-1862: the description is more descriptive than the title
DescriptionPreferred_CodeOnly(title, description, code) ==
  /\ description # <<>>
  /\ ~Contains(GENERIC, description)
  /\ Contains(code, description)

DescriptionPreferred(title, description, code) ==
  /\ description # <<>>
  /\ ~Contains(GENERIC, description)
  /\ (Contains(code, description) \/ StrLen(description) > StrLen(title))

\* Lines 1869-1870: the title (after the first rule) has the generic text
GenericTitleReplaced(title, description) ==
  /\ Contains(GENERIC, title)
  /\ description # <<>>
  /\ StrLen(description) > 0

\* Lines 1864-1866 and 1873-1875: what the record holds after a replacement
Replace(m) == [m EXCEPT !.title = m.description, !.original_title = m.description]

\* Lines 1856-1875
ReconcileRecord(m, code) ==
  LET m1 == IF DescriptionPreferred(m.title, m.description, code) THEN Replace(m) ELSE m
  IN  IF GenericTitleReplaced(m1.title, m1.description) THEN Replace(m1) ELSE m1

WasReplaced(m, code) ==
  LET m1 == IF DescriptionPreferred(m.title, m.description, code) THEN Replace(m) ELSE m
  IN  DescriptionPreferred(m.title, m.description, code)
        \/ GenericTitleReplaced(m1.title, m1.description)

\* Lines 1880-1882: the local original_title
LocalOriginalTitle(m) == IF m.original_title # <<>> THEN m.original_title ELSE m.title

TitleInit ==
  /\ tIn \in ParsedTitles
  /\ tMeta = tIn
  /\ tReplaced = FALSE
  /\ tOriginal = <<>>
  /\ tPc = "parsed"

TitleIdle ==
  /\ tIn = <<>>
  /\ tMeta = <<>>
  /\ tReplaced = FALSE
  /\ tOriginal = <<>>
  /\ tPc = "idle"

\* Lines 1856-1882 of main
ReconcileTitle ==
  /\ tPc = "parsed"
  /\ tMeta' = ReconcileRecord(tMeta, CodeWord)
  /\ tReplaced' = WasReplaced(tMeta, CodeWord)
  /\ tOriginal' = LocalOriginalTitle(ReconcileRecord(tMeta, CodeWord))
  /\ tPc' = "reconciled"
  /\ UNCHANGED tIn
  /\ UNCHANGED titleOthers

TitleNext == ReconcileTitle

----------------------------------------------------------------------------
(* Claims about the title reconciliation                                   *)

\* C13: when main replaces the title of a record with the description (by
\* either rule), original_title keeps the value it had before; only title
\* changes.
C13_OriginalTitleKept ==
  (tPc = "reconciled" /\ tReplaced) =>
    /\ tMeta.original_title = tIn.original_title
    /\ tMeta.description = tIn.description

\* The title C22 states for a record, with IsGeneric(s) saying when a text
\* counts as the generic boilerplate
ClaimedTitle(m, code, IsGeneric(_)) ==
  LET first == /\ m.description # <<>>
               /\ ~IsGeneric(m.description)
               /\ \/ \E i \in 1..Len(m.description) : m.description[i] = code
                  \/ StrLen(m.description) > StrLen(m.title)
      title1 == IF first THEN m.description ELSE m.title
  IN  IF IsGeneric(title1) /\ m.description # <<>> THEN m.description ELSE title1

IsBoilerplate(s) == s = <<GENERIC>>

HasBoilerplate(s) == \E i \in 1..Len(s) : s[i] = GENERIC

\* C22 as stated: the description replaces the title exactly when it is
\* non-empty, is not the generic boilerplate text, and contains the video
\* code or is longer than the title; and when the title is still the
\* generic boilerplate after this step and a description exists, the
\* description replaces it.
C22_DescriptionReplacesTitle_AsStated ==
  tPc = "reconciled" => tMeta.title = ClaimedTitle(tIn, CodeWord, IsBoilerplate)

\* C22 amended: the same rule with "contains the generic boilerplate text"
\* in place of "is the generic boilerplate text", for the description and
\* for the title.
C22_DescriptionReplacesTitle ==
  tPc = "reconciled" => tMeta.title = ClaimedTitle(tIn, CodeWord, HasBoilerplate)

\* C22 witness: a longer description that mentions no code replaced the
\* title by the first rule
C22_Witness ==
  /\ tPc = "reconciled"
  /\ tIn.title = <<OtherWord>>
  /\ tIn.description = <<OtherWord, OtherWord>>
  /\ tMeta.title = <<OtherWord, OtherWord>>

----------------------------------------------------------------------------
(* download_video and download_javtrailers_direct                          *)

\* Longest last path segment of the page URL
MaxSeg == 3

\* Most media URLs the regexes of lines 1241-1242 find in the page markup
MaxScraped == 2

\* Most URLs extract_video_from_browser finds beyond the four it constructs
MaxFound == 1

SegAlphabet == {"a", "r", "1", ".", "_"}

\* The page URL: whether it contains 'javtrailers.com' and its last path
\* segment url.split('/')[-1]
PageUrls ==
  [site : {TRUE}, seg : SeqsUpTo(SegAlphabet, MaxSeg)] \cup {[site |-> FALSE, seg |-> <<"a">>]}

\* Lines 1112-1116: trailing 'r' removed, then split('.')[0].strip()
CleanedCode(seg) ==
  LET noR == IF seg # <<>> /\ seg[Len(seg)] = "r" THEN SubSeq(seg, 1, Len(seg) - 1) ELSE seg
  IN  Strip(Split(noR, ".")[1])

DvdLetters == Letters \cup {"_"}

\* Line 1126: re.search(r'(\d+)?([a-zA-Z_]+)(\d+)', video_code) matches at
\* position p: digits (possibly none), letters, then a digit
DvdMatchAt(code, p) ==
  LET d == RunLen(code, p, Digits)
      l == RunLen(code, p + d, DvdLetters)
  IN  l >= 1 /\ p + d + l <= Len(code) /\ code[p + d + l] \in Digits

DvdMatches(code) == \E p \in 1..Len(code) : DvdMatchAt(code, p)

\* groups[0] of the leftmost match is not empty
DvdPrefix(code) ==
  LET p == CHOOSE q \in 1..Len(code) :
             DvdMatchAt(code, q) /\ \A k \in 1..(q - 1) : ~DvdMatchAt(code, k)
  IN  RunLen(code, p, Digits) > 0

\* Lines 1139-1180: len(dmm_urls): 2 domains, 1 first letter, the second
\* directories, 1 full id, 2 formats each
DmmUrlCount(code) ==
  IF ~DvdMatches(code) THEN 0
  ELSE LET dirs == (IF Len(code) >= 3 THEN 1 ELSE 0) + (IF DvdPrefix(code) THEN 1 ELSE 0)
       IN  2 * (IF dirs = 0 THEN 1 ELSE dirs) * 2

\* Lines 1183-1204: len(common_patterns)
CommonPatternCount(code) ==
  IF Len(code) < 3 THEN 0
  ELSE LET parts == Split(code, "_")
       IN  (IF "_" \in Range(code) /\ Len(parts) > 1 /\ Len(parts[2]) >= 3 THEN 4 ELSE 0) + 4

\* Line 1184: video_code[0] of an empty string raises IndexError
FirstCharRaises(code) == code = <<>>

\* Lines 1380-1402 and 1527-1550: [] after an exception, otherwise the four
\* constructed playlist URLs and the media URLs found in the page
BrowserUrlCounts == {0} \cup (4..(4 + MaxFound))

\* The layers in the order download_video runs them
NextLayer(layer) ==
  CASE layer = "direct"  -> "inpage"
    [] layer = "inpage"  -> "browser"
    [] layer = "browser" -> "source"
    [] layer = "source"  -> "ytdlp"
    [] OTHER             -> "none"

\* Positions of download_video: before a layer is entered ("to-<layer>"),
\* inside the candidate loop of a layer, or after the return / the raise
Enter(layer) == dPc' = layer /\ dEntered' = Append(dEntered, layer)

\* A layer is invoked on one candidate URL or on the page URL
Invoke == dCalls' = dCalls + 1 /\ dLate' = (IF dSuccess # "none" THEN dLate + 1 ELSE dLate)

\* 'return True' after a layer retrieved the video
ReturnTrue_KeepGoing(layer) == dSuccess' = layer /\ UNCHANGED <<dPc, dResult>>

ReturnTrue(layer) == dPc' = "returned" /\ dResult' = "True" /\ dSuccess' = layer

ReturnFalse == dPc' = "returned" /\ dResult' = "False" /\ UNCHANGED dSuccess

\* The runs of the external tools download_video sees to their end (an
\* interrupt leaves download_video)
LayerToolOutcomes == ToolOutcomes \ {"interrupt"}

\* One call of download_video_ffmpeg on the requested path: what it
\* returns and the file it leaves
FfmpegCall(t, o) ==
  /\ ReturnOf(o) = FfmpegOutcome(dFile, t)
  /\ dFile' = FfmpegFile(dFile, t)

\* One call of download_with_ytdlp on the requested path
YtdlpCall(t, o) ==
  /\ ReturnOf(o) = YtdlpOutcome(dFile, t)
  /\ dFile' = FileAfterRun(dFile, t)

DownloadInit ==
  /\ dUrl \in PageUrls
  /\ dPc = "start"
  /\ dCands = 0
  /\ dEntered = <<>>
  /\ dCalls = 0
  /\ dLate = 0
  /\ dSuccess = "none"
  /\ dResult = "none"
  /\ dFile \in FileStates

DownloadIdle ==
  /\ dUrl = <<>>
  /\ dPc = "idle"
  /\ dCands = 0
  /\ dEntered = <<>>
  /\ dCalls = 0
  /\ dLate = 0
  /\ dSuccess = "none"
  /\ dResult = "none"
  /\ dFile = "absent"

\* Lines 1262-1266 and 1104-1211: the javtrailers branch is taken for a
\* javtrailers URL with a non-empty last segment; download_javtrailers_direct
\* is called outside any try, so the OSError of os.makedirs (line 1109) and
\* the IndexError of line 1184 leave download_video
StartDownload ==
  /\ dPc = "start"
  /\ IF dUrl.site /\ dUrl.seg # <<>>
     THEN \E mk \in {"ok", "raise"} :
            IF mk = "raise" \/ FirstCharRaises(CleanedCode(dUrl.seg))
            THEN /\ dPc' = "raised"
                 /\ dEntered' = Append(dEntered, "direct")
                 /\ dResult' = "raised"
                 /\ UNCHANGED dCands
            ELSE /\ Enter("direct")
                 /\ dCands' = DmmUrlCount(CleanedCode(dUrl.seg))
                                + CommonPatternCount(CleanedCode(dUrl.seg))
                 /\ UNCHANGED dResult
     ELSE /\ dPc' = "to-source"
          /\ UNCHANGED <<dCands, dEntered, dResult>>
  /\ UNCHANGED <<dUrl, dCalls, dLate, dSuccess, dFile>>
  /\ UNCHANGED dlOthers

\* Lines 1214-1231: one candidate URL: the probe (requests.head) fails,
\* times out or is not 200, or it is 200 and download_video_ffmpeg returns
\* False or True
ProbeCandidate ==
  /\ dPc = "direct"
  /\ dCands > 0
  /\ Invoke
  /\ \E o \in {"no-probe", "False", "True"} :
       /\ IF o = "no-probe"
          THEN UNCHANGED dFile
          ELSE \E t \in LayerToolOutcomes : FfmpegCall(t, o)
       /\ IF o = "True"
          THEN ReturnTrue("direct") /\ UNCHANGED dCands
          ELSE dCands' = dCands - 1 /\ UNCHANGED <<dPc, dResult, dSuccess>>
  /\ UNCHANGED <<dUrl, dEntered>>
  /\ UNCHANGED dlOthers

\* Lines 1234-1242: the candidates are exhausted; the page is fetched and
\* searched for media URLs (none when the request fails or raises)
ScrapePage ==
  /\ dPc = "direct"
  /\ dCands = 0
  /\ Invoke
  /\ Enter(NextLayer("direct"))
  /\ \E n \in 0..MaxScraped : dCands' = n
  /\ UNCHANGED <<dUrl, dSuccess, dResult, dFile>>
  /\ UNCHANGED dlOthers

\* Lines 1245-1250: one scraped URL handed to download_video_ffmpeg
TryScrapedUrl ==
  /\ dPc = "inpage"
  /\ dCands > 0
  /\ Invoke
  /\ \E o \in {"False", "True"} :
       /\ \E t \in LayerToolOutcomes : FfmpegCall(t, o)
       /\ IF o = "True"
          THEN ReturnTrue("inpage") /\ UNCHANGED dCands
          ELSE dCands' = dCands - 1 /\ UNCHANGED <<dPc, dResult, dSuccess>>
  /\ UNCHANGED <<dUrl, dEntered>>
  /\ UNCHANGED dlOthers

\* Lines 1254-1255 and 1270-1272: download_javtrailers_direct returned
\* False; extract_video_from_browser
BrowserExtract ==
  /\ dPc = "inpage"
  /\ dCands = 0
  /\ Invoke
  /\ Enter(NextLayer("inpage"))
  /\ \E n \in BrowserUrlCounts : dCands' = n
  /\ UNCHANGED <<dUrl, dSuccess, dResult, dFile>>
  /\ UNCHANGED dlOthers

\* Lines 1274-1278: one browser-extracted URL handed to download_video_ffmpeg
TryBrowserUrl ==
  /\ dPc = "browser"
  /\ dCands > 0
  /\ Invoke
  /\ \E o \in {"False", "True"} :
       /\ \E t \in LayerToolOutcomes : FfmpegCall(t, o)
       /\ IF o = "True"
          THEN ReturnTrue("browser") /\ UNCHANGED dCands
          ELSE dCands' = dCands - 1 /\ UNCHANGED <<dPc, dResult, dSuccess>>
  /\ UNCHANGED <<dUrl, dEntered>>
  /\ UNCHANGED dlOthers

\* The browser URLs are exhausted
LeaveBrowser ==
  /\ dPc = "browser"
  /\ dCands = 0
  /\ dPc' = "to-" \o NextLayer("browser")
  /\ UNCHANGED <<dUrl, dCands, dEntered, dCalls, dLate, dSuccess, dResult, dFile>>
  /\ UNCHANGED dlOthers

\* Lines 1281-1300: extract_video_source raises (after its retries),
\* returns nothing, returns a URL is_valid_video_url rejects, or returns a
\* valid URL that download_video_ffmpeg retrieves or not; all inside try
SourceOutcomes == {"raise", "no-url", "invalid", "False", "True"}

SourceLayer ==
  /\ dPc = "to-source"
  /\ Invoke
  /\ dEntered' = Append(dEntered, "source")
  /\ \E o \in SourceOutcomes :
       /\ IF o \in {"True", "False"}
          THEN \E t \in LayerToolOutcomes : FfmpegCall(t, o)
          ELSE UNCHANGED dFile
       /\ IF o = "True"
          THEN ReturnTrue("source")
          ELSE dPc' = "to-" \o NextLayer("source") /\ UNCHANGED <<dResult, dSuccess>>
  /\ UNCHANGED <<dUrl, dCands>>
  /\ UNCHANGED dlOthers

\* Lines 1303-1371: download_with_ytdlp returns True or False (it raises
\* nothing; a NameError or any other exception is handled here as well)
YtdlpLayer ==
  /\ dPc = "to-ytdlp"
  /\ Invoke
  /\ dEntered' = Append(dEntered, "ytdlp")
  /\ \E o \in {"True", "False", "raise"} :
       /\ IF o = "raise"
          THEN UNCHANGED dFile
          ELSE \E t \in LayerToolOutcomes : YtdlpCall(t, o)
       /\ IF o = "True" THEN ReturnTrue("ytdlp") ELSE ReturnFalse
  /\ UNCHANGED <<dUrl, dCands>>
  /\ UNCHANGED dlOthers

DownloadNext ==
  \/ StartDownload
  \/ ProbeCandidate
  \/ ScrapePage
  \/ TryScrapedUrl
  \/ BrowserExtract
  \/ TryBrowserUrl
  \/ LeaveBrowser
  \/ SourceLayer
  \/ YtdlpLayer

----------------------------------------------------------------------------
(* Claims about download_video                                             *)

\* The order of the layers C14 states
ClaimedOrder == <<"direct", "inpage", "browser", "source", "ytdlp">>

LayerRank(layer) == CHOOSE i \in 1..Len(ClaimedOrder) : ClaimedOrder[i] = layer

\* C14: the layers of download_video run in the order direct construction
\* with probe, in-page extraction, rendered-browser extraction, extracted-
\* source stream copy, media downloader; as soon as one layer succeeds
\* download_video returns True and no later layer and no further candidate
\* URL is invoked.
C14_LayersInOrderFirstSuccessReturns ==
  /\ \A i, j \in 1..Len(dEntered) :
       i < j => LayerRank(dEntered[i]) < LayerRank(dEntered[j])
  /\ dSuccess # "none" =>
       /\ dPc = "returned"
       /\ dResult = "True"
       /\ dEntered[Len(dEntered)] = dSuccess
       /\ dLate = 0
  /\ dResult = "True" => dSuccess # "none"

\* C14 witness: the eight direct candidates and the scraped URLs failed,
\* the third browser-extracted URL was retrieved, and download_video
\* returned True without entering the last two layers
C14_Witness ==
  /\ dUrl = [site |-> TRUE, seg |-> <<"a", "1", "1">>]
  /\ dPc = "returned"
  /\ dResult = "True"
  /\ dSuccess = "browser"
  /\ dEntered = <<"direct", "inpage", "browser">>
  /\ dCands = 2
  /\ dCalls = 8 + 1 + MaxScraped + 1 + 3

\* C15: a failure of any layer, for any page URL, is caught and the next
\* layer is tried: download_video returns False only after the media
\* downloader was attempted and never leaves with an exception.
C15_FailuresCaughtNextLayerTried ==
  /\ dPc # "raised"
  /\ dResult = "False" => dEntered[Len(dEntered)] = "ytdlp"

\* C38: whenever download_video returns True, a non-empty file exists at
\* the requested output path, whichever layer reported the success.
C38_TrueMeansNonEmptyFile ==
  (dPc = "returned" /\ dResult = "True") => dFile = "data"

\* C38 witness: every stream copy failed, leaving no file at the path, and
\* the media downloader wrote the file; download_video returned True
C38_Witness ==
  /\ dUrl = [site |-> TRUE, seg |-> <<"a", "1", "1">>]
  /\ dPc = "returned"
  /\ dResult = "True"
  /\ dSuccess = "ytdlp"
  /\ dEntered = ClaimedOrder
  /\ dFile = "data"

----------------------------------------------------------------------------
(* is_valid_video_url                                                      *)

\* Longest URL, in parts
MaxUrlParts == 2

\* Lines 1064, 1070, 1071
IMAGE_EXTENSIONS == {".jpg", ".jpeg", ".png", ".gif", ".webp", ".bmp", ".tiff", ".svg"}

VIDEO_EXTENSIONS == {".mp4", ".webm", ".mkv", ".avi", ".mov", ".wmv", ".flv", ".m3u8", ".mpd", ".ts"}

VIDEO_PATTERNS == {"/video/", "/videos/", "/player/", "/embed/", "/stream/", "/watch/", "movie", "trailer"}

\* URLs and Content-Type headers are sequences of parts: an extension, a
\* path pattern, a media type prefix, or other text; some in upper case
UrlParts == {"x", ".jpg", ".PNG", ".mp4", ".M3U8", "/video/", "TRAILER", ".txt"}

TypeParts == {"video/", "VIDEO/", "application/octet-stream", "image/", "text/html"}

\* str.lower() of a part
LowerPart(t) ==
  CASE t = ".PNG"    -> ".png"
    [] t = ".M3U8"   -> ".m3u8"
    [] t = "TRAILER" -> "trailer"
    [] t = "VIDEO/"  -> "video/"
    [] OTHER         -> t

\* url.lower().endswith(extensions)
EndsWithAny(url, extensions) == url # <<>> /\ LowerPart(url[Len(url)]) \in extensions

\* part in text.lower(), for some part of the set
ContainsAny(text, parts) == \E i \in 1..Len(text) : LowerPart(text[i]) \in parts

VideoUrls == SeqsUpTo(UrlParts, MaxUrlParts)

\* requests.head: it raises or times out, or the response has no
\* Content-Type header (''), or one of one part
ProbeOutcomes == {<<"raise">>} \cup SeqsUpTo(TypeParts, 1)

\* Lines 1083-1098: the result of the probe, "undetermined" when neither
\* return statement is reached
ProbeVerdict(probe) ==
  IF probe = <<"raise">> THEN "undetermined"
  ELSE IF ContainsAny(probe, {"video/", "application/octet-stream"}) THEN "True"
  ELSE IF ContainsAny(probe, {"image/"}) THEN "False"
  ELSE "undetermined"

\* Line 1102: the result when nothing was determined
Undetermined_LetFfmpegTry == "True"

Undetermined == "False"

\* Whether line 1084 is reached
ProbeIssued(url) ==
  /\ url # <<>>
  /\ ~EndsWithAny(url, IMAGE_EXTENSIONS)
  /\ ~EndsWithAny(url, VIDEO_EXTENSIONS)
  /\ ~ContainsAny(url, VIDEO_PATTERNS)

is_valid_video_url(url, probe) ==
  IF url = <<>> THEN "False"
  ELSE IF EndsWithAny(url, IMAGE_EXTENSIONS) THEN "False"
  ELSE IF EndsWithAny(url, VIDEO_EXTENSIONS) THEN "True"
  ELSE IF ContainsAny(url, VIDEO_PATTERNS) THEN "True"
  ELSE IF ProbeVerdict(probe) # "undetermined" THEN ProbeVerdict(probe)
  ELSE Undetermined

ValidInit ==
  /\ vUrl \in VideoUrls
  /\ vProbe \in ProbeOutcomes
  /\ vProbed = FALSE
  /\ vResult = "none"
  /\ vPc = "ready"

ValidIdle ==
  /\ vUrl = <<>>
  /\ vProbe = <<>>
  /\ vProbed = FALSE
  /\ vResult = "none"
  /\ vPc = "idle"

IsValidVideoUrl ==
  /\ vPc = "ready"
  /\ vResult' = is_valid_video_url(vUrl, vProbe)
  /\ vProbed' = ProbeIssued(vUrl)
  /\ vPc' = "done"
  /\ UNCHANGED <<vUrl, vProbe>>
  /\ UNCHANGED validOthers

ValidNext == IsValidVideoUrl

----------------------------------------------------------------------------
(* Claims about is_valid_video_url                                         *)

\* The probe reports a video or octet-stream type
ProbeReportsVideo(probe) ==
  \E i \in 1..Len(probe) : LowerPart(probe[i]) \in {"video/", "application/octet-stream"}

\* The condition of C20 on a URL and the probe of it
AcceptableVideoUrl(url, probe) ==
  /\ ~(url # <<>> /\ LowerPart(url[Len(url)]) \in IMAGE_EXTENSIONS)
  /\ \/ url # <<>> /\ LowerPart(url[Len(url)]) \in VIDEO_EXTENSIONS
     \/ \E i \in 1..Len(url) : LowerPart(url[i]) \in VIDEO_PATTERNS
     \/ ProbeReportsVideo(probe)

----------------------------------------------------------------------------
(* extract_video_from_browser                                              *)

\* Most sources the script scan of the page returns
MaxSources == 2

\* Lines 1396-1401: the four playlist URLs built from the video code
ConstructedUrls == <<"K1/playlist.m3u8", "K2/playlist.m3u8",
                     "K3/full_quality.m3u8", "K4/full_quality.m3u8">>

\* What the script of lines 1408-1449 can return: a blob: URL, a manifest,
\* a file, a manifest below a path that names a file, a file of another
\* video type, an image
PageSources == {"blob:u", "a.m3u8", "b.mp4", "b.mp4/playlist.m3u8", "c.webm", "d.jpg"}

\* url.startswith('blob:'), '.m3u8' in url, '.mp4' in url
StartsWithBlob(u) == u = "blob:u"

HasM3u8(u) == u \in {"a.m3u8", "b.mp4/playlist.m3u8"} \cup Range(ConstructedUrls)

HasMp4(u) == u \in {"b.mp4", "b.mp4/playlist.m3u8"}

\* is_valid_video_url(src) on a trailer page: the image is rejected, the
\* other sources carry a video extension or the 'trailer' pattern
ValidSource(u) == u # "d.jpg"

\* The script raises, or returns a list of sources
ScanResults == {<<"raise">>} \cup SeqsUpTo(PageSources, MaxSources)

\* Lines 1451-1455 and 1506-1510: the valid sources of a scan appended to
\* video_urls; after a click only those not yet in the list
RECURSIVE AppendValid(_, _, _)
AppendValid(urls, scan, skipKnown) ==
  IF scan = <<>> \/ scan = <<"raise">> THEN urls
  ELSE IF ValidSource(Head(scan)) /\ ~(skipKnown /\ Head(scan) \in Range(urls))
    THEN AppendValid(Append(urls, Head(scan)), Tail(scan), skipKnown)
    ELSE AppendValid(urls, Tail(scan), skipKnown)

\* Lines 1527-1546: blob: URLs dropped, then the URLs with '.m3u8' followed
\* by the URLs with '.mp4'
PriorityUrls(urls) ==
  LET filtered == SelectSeq(urls, LAMBDA u : ~StartsWithBlob(u))
  IN  SelectSeq(filtered, HasM3u8) \o SelectSeq(filtered, HasMp4)

BrowserInit ==
  /\ bCode \in VideoCodes
  /\ bNav \in {"ok", "raise"}
  /\ bScan \in ScanResults
  /\ bUrls = <<>>
  /\ bClickRan = FALSE
  /\ bResult = <<>>
  /\ bPc = "start"

BrowserIdle ==
  /\ bCode = <<>>
  /\ bNav = "ok"
  /\ bScan = <<>>
  /\ bUrls = <<>>
  /\ bClickRan = FALSE
  /\ bResult = <<>>
  /\ bPc = "idle"

\* Lines 1379-1403: the page is loaded (an exception goes to the handler of
\* line 1548, which returns []); extract_video_code(url) and, for a
\* non-empty code, the constructed URLs
BrowserNavigate ==
  /\ bPc = "start"
  /\ IF bNav = "raise"
     THEN bPc' = "returned" /\ bUrls' = bUrls
     ELSE /\ bPc' = "scan"
          /\ bUrls' = IF bCode # <<>> THEN ConstructedUrls ELSE <<>>
  /\ UNCHANGED <<bCode, bNav, bScan, bClickRan, bResult>>
  /\ UNCHANGED browserOthers

\* Lines 1405-1457, method 1: the script scan
BrowserScan ==
  /\ bPc = "scan"
  /\ bUrls' = AppendValid(bUrls, bScan, FALSE)
  /\ bPc' = "click"
  /\ UNCHANGED <<bCode, bNav, bScan, bClickRan, bResult>>
  /\ UNCHANGED browserOthers

\* Lines 1459-1524, method 2: only 'if not video_urls' the play controls are
\* clicked and the page is scanned again after each click
BrowserClick ==
  /\ bPc = "click"
  /\ IF bUrls = <<>>
     THEN /\ bClickRan' = TRUE
          /\ \E rescan \in ScanResults : bUrls' = AppendValid(bUrls, rescan, TRUE)
     ELSE UNCHANGED <<bClickRan, bUrls>>
  /\ bPc' = "filter"
  /\ UNCHANGED <<bCode, bNav, bScan, bResult>>
  /\ UNCHANGED browserOthers

\* Lines 1526-1546
BrowserFilter ==
  /\ bPc = "filter"
  /\ bResult' = IF bUrls # <<>> THEN PriorityUrls(bUrls) ELSE <<>>
  /\ bPc' = "returned"
  /\ UNCHANGED <<bCode, bNav, bScan, bUrls, bClickRan>>
  /\ UNCHANGED browserOthers

BrowserNext == BrowserNavigate \/ BrowserScan \/ BrowserClick \/ BrowserFilter

----------------------------------------------------------------------------
(* Claims about extract_video_from_browser                                 *)

\* The script scan found no video source
ScanFoundNothing == AppendValid(<<>>, bScan, FALSE) = <<>>

\* C23: when the script scan of the rendered page finds no video source,
\* the play controls are clicked and the page is scanned again; that step
\* is skipped only when the scan found at least one source.
C23_PlayControlsWhenScanFindsNothing ==
  (bPc \in {"filter", "returned"} /\ bNav = "ok") => (bClickRan <=> ScanFoundNothing)

\* A manifest URL and a direct file URL
IsManifestUrl(u) == HasM3u8(u)

IsFileUrl(u) == HasMp4(u) /\ ~HasM3u8(u)

\* C24: the returned list contains no blob: URL, every manifest URL (.m3u8)
\* in it precedes every direct file URL (.mp4), and after an error the
\* empty list is returned.
C24_NoBlobManifestsFirst ==
  bPc = "returned" =>
    /\ \A i \in 1..Len(bResult) : ~StartsWithBlob(bResult[i])
    /\ \A i, j \in 1..Len(bResult) :
         (IsFileUrl(bResult[i]) /\ IsManifestUrl(bResult[j])) => j < i
    /\ bNav = "raise" => bResult = <<>>

\* Without a URL that holds both '.m3u8' and '.mp4', C24 holds
ManifestsFirstForPlainUrls ==
  (bPc = "returned" /\ "b.mp4/playlist.m3u8" \notin Range(bScan)) =>
    /\ \A i \in 1..Len(bResult) : ~StartsWithBlob(bResult[i])
    /\ \A i, j \in 1..Len(bResult) :
         (IsFileUrl(bResult[i]) /\ IsManifestUrl(bResult[j])) => j < i
    /\ bNav = "raise" => bResult = <<>>

----------------------------------------------------------------------------
(* download_thumbnail (scraper.py) and download_file (downloader.py)       *)

\* Most chunks response.iter_content yields
MaxChunks == 2

\* Nested calls of download_file the model follows
MaxDepth == 3

\* A URL is the sequence of its scheme, host, path and extension; a relative
\* URL starts with its path. The asset URLs: a page without an extension, a
\* video file, an image
FetchUrls ==
  {<<"https://", "h", "/page">>, <<"https://", "h", "/v", ".mp4">>, <<"http://", "h", "/p", ".jpg">>}

\* An argument that is not a string
NotAString == <<"<not-a-string>">>

\* What download_file is called with: also nothing, a relative URL, a URL
\* of another scheme
FileUrls ==
  FetchUrls \cup {<<>>, NotAString, <<"/page">>, <<"/v", ".mp4">>, <<"ftp://", "h", "/v", ".mp4">>}

\* url.startswith('/')
StartsWithSlash(u) == u # <<>> /\ Head(u) \in {"/page", "/v", "/p"}

\* downloader.py 42-45: f"https://javtrailers.com{url}"
Absolute(u) == IF StartsWithSlash(u) THEN <<"https://", "javtrailers.com">> \o u ELSE u

\* downloader.py 48: url.startswith(('http://', 'https://'))
HasHttpScheme_AnyScheme(u) == u # <<>>

HasHttpScheme(u) == u # <<>> /\ Head(u) \in {"http://", "https://"}

\* src_value.endswith('.mp4')
EndsWithMp4(u) == u # <<>> /\ u[Len(u)] = ".mp4"

\* The src values of the video and source tags of an HTML answer that are
\* taken as the media link (downloader.py 138-143)
LinkUrls == {u \in FileUrls : u # NotAString /\ EndsWithMp4(u)}

\* The Content-Type headers a server answers with ("" when the header is missing)
ContentTypes == {"", "image/jpeg", "text/html", "video/mp4"}

\* content_type.startswith('image/')
IsImageType(t) == t = "image/jpeg"

\* mimetypes.guess_type(url)[0] starts with 'image/'
GuessedImage(u) == u # <<>> /\ u[Len(u)] = ".jpg"

\* url.endswith(('.mp4', '.jpg', '.jpeg', '.png', '.gif'))
EndsWithAssetExtension_ImagesOnly(u) == u # <<>> /\ u[Len(u)] \in {".jpg"}

EndsWithAssetExtension(u) == u # <<>> /\ u[Len(u)] \in {".mp4", ".jpg"}

\* 'text/html' in content_type
IsHtmlType(t) == t = "text/html"

\* The file at the target path: absent, a file from before the call, an
\* empty file, the payload of this call's response
TargetFiles == {"absent", "old", "empty", "data"}

\* The chunk sizes of a response body
ChunkSeqs == SeqsUpTo({0, 1}, MaxChunks)

RECURSIVE SumSeq(_)
SumSeq(s) == IF s = <<>> THEN 0 ELSE Head(s) + SumSeq(Tail(s))

\* open(path, 'wb') followed by the write of every non-empty chunk
Written(chunks) == IF SumSeq(chunks) > 0 THEN "data" ELSE "empty"

\* scraper.py 655-660: the handler of download_thumbnail removes whatever is
\* at the target path and returns False; os.remove may itself raise
ThumbnailHandler_KeepPartial(file, remove) ==
  [file |-> file, result |-> "False"]

ThumbnailHandler(file, remove) ==
  IF file = "absent" THEN [file |-> "absent", result |-> "False"]
  ELSE IF remove = "ok" THEN [file |-> "absent", result |-> "False"]
  ELSE [file |-> file, result |-> "raised"]

RemoveOutcomes == {"ok", "raise"}

FetchInit ==
  /\ gFunc \in {"download_thumbnail", "download_file"}
  /\ gUrl \in (IF gFunc = "download_file" THEN FileUrls ELSE FetchUrls)
  /\ gFile \in {"absent", "old", "empty"}
  /\ gFile0 = gFile
  /\ gType = ""
  /\ gLink = FALSE
  /\ gWrote = FALSE
  /\ gRequests = 0
  /\ gDepth = 0
  /\ gResult = "none"
  /\ gPc = "start"

FetchIdle ==
  /\ gFunc = "none"
  /\ gUrl = <<>>
  /\ gFile = "absent"
  /\ gFile0 = "absent"
  /\ gType = ""
  /\ gLink = FALSE
  /\ gWrote = FALSE
  /\ gRequests = 0
  /\ gDepth = 0
  /\ gResult = "none"
  /\ gPc = "idle"

GReturn(file, result) ==
  /\ gFile' = file
  /\ gResult' = result
  /\ gPc' = "returned"

\* scraper.py 623-638: makedirs, requests.get, raise_for_status, and the
\* content-type check, which only logs a warning
ThumbnailRequest ==
  /\ gPc = "start" /\ gFunc = "download_thumbnail"
  /\ \E outcome \in {"raise", "ok"}, type \in ContentTypes, remove \in RemoveOutcomes :
       IF outcome = "raise"
       THEN /\ GReturn(ThumbnailHandler(gFile, remove).file, ThumbnailHandler(gFile, remove).result)
            /\ UNCHANGED gType
       ELSE /\ gType' = type
            /\ gPc' = "write"
            /\ UNCHANGED <<gFile, gResult>>
  /\ UNCHANGED <<gFunc, gUrl, gLink, gWrote, gFile0, gRequests, gDepth>>
  /\ UNCHANGED fetchOthers

\* scraper.py 641-654: the payload is written in chunks, a file of size zero
\* is removed; an exception of open, iter_content or os.remove goes to the
\* handler
ThumbnailWrite ==
  /\ gPc = "write" /\ gFunc = "download_thumbnail"
  /\ \E opened \in BOOLEAN, chunks \in ChunkSeqs, broken \in BOOLEAN,
        remove1 \in RemoveOutcomes, remove2 \in RemoveOutcomes :
       LET file == IF opened THEN Written(chunks) ELSE gFile
           handled == ThumbnailHandler(file, remove2)
       IN  /\ gWrote' = (opened /\ SumSeq(chunks) > 0)
           /\ IF ~opened \/ broken THEN GReturn(handled.file, handled.result)
              ELSE IF file = "empty"
                THEN IF remove1 = "ok" THEN GReturn("absent", "False")
                     ELSE GReturn(handled.file, handled.result)
                ELSE GReturn(file, "True")
  /\ UNCHANGED <<gFunc, gUrl, gType, gLink, gFile0, gRequests, gDepth>>
  /\ UNCHANGED fetchOthers

\* downloader.py 33-51: an empty URL, a URL that is not a string and, after
\* a relative URL was made absolute, a URL of another scheme return False
FileValidate ==
  /\ gPc = "start" /\ gFunc = "download_file"
  /\ IF gUrl = <<>> \/ gUrl = NotAString \/ ~HasHttpScheme(Absolute(gUrl))
     THEN GReturn(gFile, "False") /\ UNCHANGED gUrl
     ELSE /\ gUrl' = Absolute(gUrl)
          /\ gPc' = "request"
          /\ UNCHANGED <<gFile, gResult>>
  /\ UNCHANGED <<gFunc, gType, gLink, gWrote, gFile0, gRequests, gDepth>>
  /\ UNCHANGED fetchOthers

\* downloader.py 53-148: the request; a Content-Length of 0 returns False;
\* an HTML answer for a URL without an asset extension is searched for a
\* media link, which is fetched by a nested call, and is saved otherwise
FileRequest ==
  /\ gPc = "request" /\ gFunc = "download_file"
  /\ gRequests' = gRequests + 1
  /\ \E outcome \in {"raise", "ok"}, type \in ContentTypes, length \in {0, 1}, link \in BOOLEAN :
       IF outcome = "raise" \/ length = 0
       THEN /\ GReturn(gFile, "False")
            /\ UNCHANGED <<gType, gLink, gUrl, gDepth>>
       ELSE /\ gType' = type
            /\ gLink' = link
            /\ UNCHANGED <<gFile, gResult>>
            /\ IF IsHtmlType(type) /\ ~EndsWithAssetExtension(gUrl) /\ link
               THEN /\ gDepth < MaxDepth
                    /\ \E src \in LinkUrls : gUrl' = src
                    /\ gDepth' = gDepth + 1
                    /\ gPc' = "start"
               ELSE gUrl' = gUrl /\ gPc' = "write" /\ gDepth' = gDepth
  /\ UNCHANGED <<gFunc, gWrote, gFile0>>
  /\ UNCHANGED fetchOthers

\* downloader.py 151-166: whatever content was returned is saved; an
\* exception returns False and leaves the file as it is
FileWrite ==
  /\ gPc = "write" /\ gFunc = "download_file"
  /\ \E opened \in BOOLEAN, chunks \in ChunkSeqs, broken \in BOOLEAN :
       LET file == IF opened THEN Written(chunks) ELSE gFile
       IN  /\ gWrote' = (opened /\ SumSeq(chunks) > 0)
           /\ GReturn(file, IF ~opened \/ broken THEN "False" ELSE "True")
  /\ UNCHANGED <<gFunc, gUrl, gType, gLink, gFile0, gRequests, gDepth>>
  /\ UNCHANGED fetchOthers

FetchNext == ThumbnailRequest \/ ThumbnailWrite \/ FileValidate \/ FileRequest \/ FileWrite

----------------------------------------------------------------------------
(* Claims about the plain-asset fetches                                    *)

\* C25: download_thumbnail returns True only if a non-empty file exists at
\* the target path afterwards; whenever it returns False, no file exists at
\* the target path afterwards.
C25_ThumbnailFileMatchesResult ==
  (gPc = "returned" /\ gFunc = "download_thumbnail") =>
    /\ gResult = "True" => gFile = "data"
    /\ gResult = "False" => gFile = "absent"

\* A payload was written, the function returned False and removed the file
C25_Witness ==
  /\ gPc = "returned" /\ gFunc = "download_thumbnail"
  /\ gWrote /\ gResult = "False" /\ gFile = "absent"

\* The URL is empty, not a string or of a scheme other than http and https
DisallowedUrl(u) == u = <<>> \/ u = NotAString \/ Head(u) = "ftp://"

\* C32: download_file returns False without sending a request and without
\* creating or changing a file when the URL is empty, is not a string or,
\* after a relative URL has been made absolute, does not start with http://
\* or https://.
C32_DisallowedUrlRejectedUntouched ==
  (gFunc = "download_file" /\ gDepth = 0 /\ DisallowedUrl(gUrl)) =>
    /\ gPc \in {"start", "returned"}
    /\ gRequests = 0
    /\ gFile = gFile0
    /\ gPc = "returned" => gResult = "False"

\* A URL of another scheme was rejected with a file at the target path
C32_Witness ==
  /\ gFunc = "download_file" /\ gDepth = 0 /\ gPc = "returned"
  /\ gUrl = <<"ftp://", "h", "/v", ".mp4">>
  /\ gFile0 = "old" /\ gFile = "old" /\ gResult = "False" /\ gRequests = 0

\* C35: following a media link found in an HTML answer leads to at most
\* one nested download_file call per top-level call.
C35_AtMostOneNestedCall ==
  gFunc = "download_file" => (gDepth <= 1 /\ gRequests <= 2)

\* The nested call fetched the media link of an HTML answer
C35_Witness ==
  /\ gFunc = "download_file" /\ gPc = "returned"
  /\ gDepth = 1 /\ gRequests = 2 /\ gResult = "True" /\ gFile = "data"

\* The content type of the response is wrong for the asset
WrongContentType ==
  \/ gFunc = "download_thumbnail" /\ ~IsImageType(gType) /\ ~GuessedImage(gUrl)
  \/ gFunc = "download_file" /\ IsHtmlType(gType) /\ ~gLink

\* C26: a plain-asset fetch whose response has the wrong content type
\* returns failure and leaves no file from that response at the target path.
C26_WrongContentTypeRejected ==
  (gPc = "returned" /\ WrongContentType) =>
    (gResult # "True" /\ gFile # "data")

----------------------------------------------------------------------------
(* The candidate loop of download_javtrailers_direct, lines 1208-1231      *)

\* The cleaned video codes for which the loop is reached
ProbeCodes == {CleanedCode(seg) : seg \in SeqsUpTo(SegAlphabet, MaxSeg)} \ {<<>>}

\* The status codes requests.head answers with
ProbeStatuses == {200, 404}

\* One step of the loop on a candidate: the probe or the retrieval
NoEvent == [op |-> "none", cand |-> 0, status |-> 0]

ProbeEvent(i, status) == [op |-> "probe", cand |-> i, status |-> status]

RetrieveEvent(i) == [op |-> "retrieve", cand |-> i, status |-> 0]

\* Line 1221: 'if response.status_code == 200'; a probe that raised has no
\* status
ProbePositive_AnyAnswer(raised, status) == ~raised

ProbePositive(raised, status) == ~raised /\ status = 200

ProbeInit ==
  /\ qCode \in ProbeCodes
  /\ qUrls = DmmUrlCount(qCode) + CommonPatternCount(qCode)
  /\ qI = 1
  /\ qPrev = NoEvent
  /\ qLast = NoEvent
  /\ qResult = "none"
  /\ qPc = "probe"

ProbeIdle ==
  /\ qCode = <<>>
  /\ qUrls = 0
  /\ qI = 0
  /\ qPrev = NoEvent
  /\ qLast = NoEvent
  /\ qResult = "none"
  /\ qPc = "idle"

\* Lines 1215-1221 and 1230-1231: requests.head on the candidate; an
\* exception is logged and the loop goes on
ProbeUrl ==
  /\ qPc = "probe"
  /\ qI <= qUrls
  /\ \E raised \in BOOLEAN, status \in ProbeStatuses :
       /\ qPrev' = qLast
       /\ qLast' = ProbeEvent(qI, IF raised THEN 0 ELSE status)
       /\ IF ProbePositive(raised, status)
          THEN qPc' = "retrieve" /\ qI' = qI
          ELSE qPc' = "probe" /\ qI' = qI + 1
  /\ UNCHANGED <<qCode, qUrls, qResult>>
  /\ UNCHANGED probeOthers

\* Lines 1222-1229: download_video_ffmpeg on the candidate
RetrieveUrl ==
  /\ qPc = "retrieve"
  /\ qPrev' = qLast
  /\ qLast' = RetrieveEvent(qI)
  /\ \E ok \in BOOLEAN :
       IF ok THEN qPc' = "returned" /\ qResult' = "True" /\ qI' = qI
       ELSE qPc' = "probe" /\ qResult' = qResult /\ qI' = qI + 1
  /\ UNCHANGED <<qCode, qUrls>>
  /\ UNCHANGED probeOthers

\* Line 1233: every candidate was tried, the page itself is scraped next
CandidatesExhausted ==
  /\ qPc = "probe"
  /\ qI > qUrls
  /\ qPc' = "scrape"
  /\ UNCHANGED <<qCode, qUrls, qI, qPrev, qLast, qResult>>
  /\ UNCHANGED probeOthers

ProbeNext == ProbeUrl \/ RetrieveUrl \/ CandidatesExhausted

----------------------------------------------------------------------------
(* Claims about the candidate loop                                         *)

\* C29: retrieval is attempted for a candidate only after its probe
\* answered 200, immediately after that probe and before the next
\* candidate is probed; candidates whose probe fails or raises are skipped
\* without a retrieval attempt.
C29_RetrievalOnlyAfterPositiveProbe ==
  /\ qLast.op = "retrieve" => qPrev = ProbeEvent(qLast.cand, 200)
  /\ (qPrev.op = "probe" /\ qPrev.status = 200) => qLast = RetrieveEvent(qPrev.cand)
  /\ qLast.op = "probe" =>
       IF qLast.status = 200
       THEN qPc = "retrieve" /\ qI = qLast.cand
       ELSE qPc \in {"probe", "scrape"} /\ qI = qLast.cand + 1

\* The third candidate is retrieved after the second was skipped
C29_Witness ==
  /\ qPc = "returned"
  /\ qLast = RetrieveEvent(3)
  /\ qPrev = ProbeEvent(3, 200)

----------------------------------------------------------------------------
(* extract_video_source                                                    *)

\* The extraction methods in the order of the code
Methods == <<"video", "source", "script", "iframe", "regex", "probe">>

\* video_url = None
None == "None"

\* Most iframe elements of a page
MaxIframes == 2

\* page_url.split('/')[-1]: empty for a page URL that ends with '/'
SourceCodes == SeqsUpTo(SegAlphabet, 1)

\* What a method comes to: no URL, a URL, or an exception that its handler
\* logs
MethodOutcomes == {"nothing", "found", "raise"}

\* The URL a method finds
UrlOf(method) == "url-of-" \o method

SourceInit ==
  /\ xCode \in SourceCodes
  /\ xUrl = None
  /\ xTried = <<>>
  /\ xResult = "none"
  /\ xContext = "top"
  /\ xVisits = <<>>
  /\ xPc = "video"

SourceIdle ==
  /\ xCode = <<>>
  /\ xUrl = None
  /\ xTried = <<>>
  /\ xResult = "none"
  /\ xContext = "top"
  /\ xVisits = <<>>
  /\ xPc = "idle"

\* One method is attempted and comes to outcome o
Attempt(method, o) ==
  /\ xTried' = Append(xTried, method)
  /\ xUrl' = IF o = "found" THEN UrlOf(method) ELSE xUrl

Skip == UNCHANGED <<xTried, xUrl>>

\* Lines 702-717, method 1: the video elements
VideoElements ==
  /\ xPc = "video"
  /\ \E o \in MethodOutcomes : Attempt("video", o)
  /\ xPc' = "source"
  /\ UNCHANGED <<xCode, xResult, xContext, xVisits>>
  /\ UNCHANGED sourceOthers

\* Lines 719-734, method 2: the source elements, 'if not video_url'
SourceElements ==
  /\ xPc = "source"
  /\ IF xUrl = None THEN \E o \in MethodOutcomes : Attempt("source", o) ELSE Skip
  /\ xPc' = "script"
  /\ UNCHANGED <<xCode, xResult, xContext, xVisits>>
  /\ UNCHANGED sourceOthers

\* Lines 736-835, method 3: the script scan; when every source it returns is
\* an image, 'return None' (line 815)
ScriptScan ==
  /\ xPc = "script"
  /\ IF xUrl = None
     THEN \E o \in MethodOutcomes \cup {"images"} :
            /\ Attempt("script", o)
            /\ IF o = "images"
               THEN xPc' = "returned" /\ xResult' = None
               ELSE xPc' = "iframe" /\ xResult' = xResult
     ELSE Skip /\ xPc' = "iframe" /\ xResult' = xResult
  /\ UNCHANGED <<xCode, xContext, xVisits>>
  /\ UNCHANGED sourceOthers

\* What happens at one iframe: reading its src raises, the src does not
\* name a player or it does; switch_to.frame raises or not; the search in
\* the frame finds a URL, finds nothing or raises
IframeVisits ==
  [src : {"raise", "nomatch", "match"}, switch : {"ok", "raise"},
   read : {"found", "nothing", "raise"}]

\* Lines 889-894: the handler of the loop body switches to the default
\* content when a frame is on active_frames
FrameHandler(st) ==
  IF st.frames # <<>> THEN [st EXCEPT !.ctx = "top", !.frames = <<>>] ELSE st

\* Lines 854-882: inside the frame the search runs in its own try block,
\* whose handler logs; then switch_to.default_content() and
\* active_frames.pop()
AfterRead_SkippedOnError(st, read) ==
  IF read = "raise" THEN FrameHandler([st EXCEPT !.frames = <<>>])
  ELSE [st EXCEPT !.ctx = "top", !.frames = SubSeq(@, 1, Len(@) - 1),
                  !.found = (read = "found")]

AfterRead(st, read) ==
  [st EXCEPT !.ctx = "top", !.frames = SubSeq(@, 1, Len(@) - 1),
             !.found = (read = "found")]

\* Lines 842-894: one iframe of the loop
IframeVisit(st, v) ==
  IF v.src = "raise" THEN FrameHandler(st)
  ELSE IF v.src = "nomatch" THEN st
  ELSE LET entered == [st EXCEPT !.frames = Append(@, "default")]
       IN  IF v.switch = "raise" THEN FrameHandler(entered)
           ELSE AfterRead([entered EXCEPT !.ctx = "iframe"], v.read)

\* The loop of line 841, left at the first URL (line 884)
RECURSIVE Traverse(_, _)
Traverse(st, visits) ==
  IF visits = <<>> \/ st.found THEN st
  ELSE Traverse(IframeVisit(st, Head(visits)), Tail(visits))

\* Lines 837-904, method 4: the iframes; an exception of find_elements goes
\* to the handler of line 895
IframeTraversal ==
  /\ xPc = "iframe"
  /\ IF xUrl = None
     THEN \E listing \in {"ok", "raise"}, visits \in SeqsUpTo(IframeVisits, MaxIframes) :
            LET st0 == [ctx |-> xContext, frames |-> <<>>, found |-> FALSE]
                st  == IF listing = "raise" THEN FrameHandler(st0) ELSE Traverse(st0, visits)
            IN  /\ Attempt("iframe", IF st.found THEN "found" ELSE "nothing")
                /\ xContext' = st.ctx
                /\ xVisits' = IF listing = "raise" THEN <<>> ELSE visits
     ELSE Skip /\ UNCHANGED <<xContext, xVisits>>
  /\ xPc' = "regex"
  /\ UNCHANGED <<xCode, xResult>>
  /\ UNCHANGED sourceOthers

\* Lines 899-935, method 5: the regexes over the page markup,
\* 'if not video_url and video_code'; the try block holds method 6 too, so
\* an exception here passes it over
MarkupRegex ==
  /\ xPc = "regex"
  /\ IF xUrl = None /\ xCode # <<>>
     THEN \E o \in MethodOutcomes :
            /\ Attempt("regex", o)
            /\ xPc' = IF o = "nothing" THEN "probe" ELSE "end"
     ELSE Skip /\ xPc' = "end"
  /\ UNCHANGED <<xCode, xResult, xContext, xVisits>>
  /\ UNCHANGED sourceOthers

\* Lines 937-955, method 6: the constructed URLs are probed; the exception
\* of a probe is caught per URL
ConstructedProbe ==
  /\ xPc = "probe"
  /\ \E o \in {"nothing", "found"} : Attempt("probe", o)
  /\ xPc' = "end"
  /\ UNCHANGED <<xCode, xResult, xContext, xVisits>>
  /\ UNCHANGED sourceOthers

\* Lines 957-975: ValueError without a URL, the URL otherwise
SourceReturn ==
  /\ xPc = "end"
  /\ IF xUrl = None
     THEN xPc' = "raised" /\ xResult' = "ValueError"
     ELSE xPc' = "returned" /\ xResult' = xUrl
  /\ UNCHANGED <<xCode, xUrl, xTried, xContext, xVisits>>
  /\ UNCHANGED sourceOthers

SourceNext ==
  \/ VideoElements \/ SourceElements \/ ScriptScan \/ IframeTraversal
  \/ MarkupRegex \/ ConstructedProbe \/ SourceReturn

----------------------------------------------------------------------------
(* Claims about extract_video_source                                       *)

\* The methods before the position pc
RECURSIVE MethodsBefore(_, _)
MethodsBefore(pc, k) ==
  IF k > Len(Methods) \/ Methods[k] = pc THEN <<>>
  ELSE <<Methods[k]>> \o MethodsBefore(pc, k + 1)

\* C30: each method is attempted whenever all earlier methods produced no
\* URL; the function returns a URL of the first method that found one, or
\* raises after all methods found nothing, and never returns without a URL
\* while a later method is untried.
C30_EveryMethodTriedUntilFound ==
  /\ (xPc \notin {"idle", "returned"} /\ xUrl = None) => xTried = MethodsBefore(xPc, 1)
  /\ xPc = "returned" =>
       /\ xResult # None
       /\ xResult = UrlOf(xTried[Len(xTried)])
  /\ xPc = "raised" => xTried = Methods

MethodsInOrderUntilFound ==
  /\ (xPc \in {"video", "source", "script", "iframe", "regex"} /\ xUrl = None)
       => xTried = MethodsBefore(xPc, 1)
  /\ (xPc = "returned" /\ xResult # None) => xResult = UrlOf(xTried[Len(xTried)])

----------------------------------------------------------------------------
vars == <<retryVars, codeVars, nameVars, parseVars, assetVars, fsVars, mainVars, titleVars, dlVars, validVars, browserVars, fetchVars, probeVars, sourceVars>>

InitRetry == RetryInit /\ CodeIdle /\ NameIdle /\ ParseIdle /\ AssetsIdle /\ CleanupIdle /\ MainIdle /\ TitleIdle /\ DownloadIdle /\ ValidIdle /\ BrowserIdle /\ FetchIdle /\ ProbeIdle /\ SourceIdle

SpecRetry == InitRetry /\ [][RetryNext]_vars

InitCode == CodeInit /\ RetryIdle /\ NameIdle /\ ParseIdle /\ AssetsIdle /\ CleanupIdle /\ MainIdle /\ TitleIdle /\ DownloadIdle /\ ValidIdle /\ BrowserIdle /\ FetchIdle /\ ProbeIdle /\ SourceIdle

SpecCode == InitCode /\ [][CodeNext]_vars

InitName == NameInit /\ RetryIdle /\ CodeIdle /\ ParseIdle /\ AssetsIdle /\ CleanupIdle /\ MainIdle /\ TitleIdle /\ DownloadIdle /\ ValidIdle /\ BrowserIdle /\ FetchIdle /\ ProbeIdle /\ SourceIdle

SpecName == InitName /\ [][NameNext]_vars

InitParse == ParseInit /\ RetryIdle /\ CodeIdle /\ NameIdle /\ AssetsIdle /\ CleanupIdle /\ MainIdle /\ TitleIdle /\ DownloadIdle /\ ValidIdle /\ BrowserIdle /\ FetchIdle /\ ProbeIdle /\ SourceIdle

SpecParse == InitParse /\ [][ParseNext]_vars

InitAssets == AssetsInit /\ RetryIdle /\ CodeIdle /\ NameIdle /\ ParseIdle /\ CleanupIdle /\ MainIdle /\ TitleIdle /\ DownloadIdle /\ ValidIdle /\ BrowserIdle /\ FetchIdle /\ ProbeIdle /\ SourceIdle

SpecAssets == InitAssets /\ [][AssetsNext]_vars

InitCleanup == CleanupInit /\ RetryIdle /\ CodeIdle /\ NameIdle /\ ParseIdle /\ AssetsIdle /\ MainIdle /\ TitleIdle /\ DownloadIdle /\ ValidIdle /\ BrowserIdle /\ FetchIdle /\ ProbeIdle /\ SourceIdle

SpecCleanup == InitCleanup /\ [][CleanupNext]_vars

InitMain == MainInit /\ RetryIdle /\ CodeIdle /\ NameIdle /\ ParseIdle /\ AssetsIdle /\ CleanupIdle /\ TitleIdle /\ DownloadIdle /\ ValidIdle /\ BrowserIdle /\ FetchIdle /\ ProbeIdle /\ SourceIdle

SpecMain == InitMain /\ [][MainNext]_vars

InitTitle == TitleInit /\ RetryIdle /\ CodeIdle /\ NameIdle /\ ParseIdle /\ AssetsIdle /\ CleanupIdle /\ MainIdle /\ DownloadIdle /\ ValidIdle /\ BrowserIdle /\ FetchIdle /\ ProbeIdle /\ SourceIdle

SpecTitle == InitTitle /\ [][TitleNext]_vars

InitDownload == DownloadInit /\ RetryIdle /\ CodeIdle /\ NameIdle /\ ParseIdle /\ AssetsIdle /\ CleanupIdle /\ MainIdle /\ TitleIdle /\ ValidIdle /\ BrowserIdle /\ FetchIdle /\ ProbeIdle /\ SourceIdle

SpecDownload == InitDownload /\ [][DownloadNext]_vars

InitValid == ValidInit /\ RetryIdle /\ CodeIdle /\ NameIdle /\ ParseIdle /\ AssetsIdle /\ CleanupIdle /\ MainIdle /\ TitleIdle /\ DownloadIdle /\ BrowserIdle /\ FetchIdle /\ ProbeIdle /\ SourceIdle

SpecValid == InitValid /\ [][ValidNext]_vars

InitBrowser == BrowserInit /\ RetryIdle /\ CodeIdle /\ NameIdle /\ ParseIdle /\ AssetsIdle /\ CleanupIdle /\ MainIdle /\ TitleIdle /\ DownloadIdle /\ ValidIdle /\ FetchIdle /\ ProbeIdle /\ SourceIdle

SpecBrowser == InitBrowser /\ [][BrowserNext]_vars

InitFetch == FetchInit /\ RetryIdle /\ CodeIdle /\ NameIdle /\ ParseIdle /\ AssetsIdle /\ CleanupIdle /\ MainIdle /\ TitleIdle /\ DownloadIdle /\ ValidIdle /\ BrowserIdle /\ ProbeIdle /\ SourceIdle

SpecFetch == InitFetch /\ [][FetchNext]_vars

InitProbe == ProbeInit /\ RetryIdle /\ CodeIdle /\ NameIdle /\ ParseIdle /\ AssetsIdle /\ CleanupIdle /\ MainIdle /\ TitleIdle /\ DownloadIdle /\ ValidIdle /\ BrowserIdle /\ FetchIdle /\ SourceIdle

SpecProbe == InitProbe /\ [][ProbeNext]_vars

InitSource == SourceInit /\ RetryIdle /\ CodeIdle /\ NameIdle /\ ParseIdle /\ AssetsIdle /\ CleanupIdle /\ MainIdle /\ TitleIdle /\ DownloadIdle /\ ValidIdle /\ BrowserIdle /\ FetchIdle /\ ProbeIdle

SpecSource == InitSource /\ [][SourceNext]_vars

====
